---- MODULE Spec2Model ----
(***************************************************************************)
(* Model of the extraction core of palworld-lens:                          *)
(*   - the path extraction interpreter (parser/loaders/schema_loader.py),  *)
(*   - the relationship resolver (parser/extractors/relationships.py,      *)
(*     parser/extractors/players.py, parser/extractors/bases.py),          *)
(*   - the stat calculation engine (parser/utils/stats.py).                *)
(* Each subsystem has its own specification over its own variables; the    *)
(* variables of the other subsystems stay at their initial values.         *)
(***************************************************************************)
EXTENDS Integers, Sequences, FiniteSets, TLC

VARIABLES
    fData,      \* extract_field: the node handed in as `data`
    fSchema,    \* extract_field: the field schema looked up by name
    fResult,    \* extract_field: the value returned, or the exception raised
    fUnwrapped, \* `current` right after the unwrap loop of the call
    fCall,      \* which accessor ran: "none", "extract_field" or "_extract_from_path"
    cWorld,     \* extract_collection: the tree handed in as `world_data`
    cSchema,    \* extract_collection: the collection schema looked up by name
    cResult,    \* extract_collection: the mapping returned (NotRun before the call)
    sIn,        \* calculate_pal_stats: the arguments of the latest call
    sOut,       \* calculate_pal_stats: the dict returned by the latest call
    sPrev,      \* calculate_pal_stats: the dict returned by the call before it
    sOp,        \* which argument the latest call changed: "none", "calc", "trust", "rank", "alpha"
    aWorld,     \* get_base_assignments: the base and character entries of world_data
    aResult,    \* get_base_assignments: the assignments returned
    aDone,      \* get_base_assignments: TRUE once the call has returned
    oWorld,     \* ownership: the player fragments and the world entries read
    oPlayers,   \* ownership: player_uid_to_containers as build_player_mapping returns it
    oOwner,     \* ownership: pal_to_owner as build_pal_ownership returns it
    oPc,        \* ownership: "start", "mapped" after build_player_mapping, then "owned"
    nSchema,    \* SchemaLoader: the schema document loaded (fields, lists, collections)
    nData,      \* accessor by name: the tree handed in
    nCall,      \* accessor by name: <<accessor, name>> of the call
    nResult,    \* accessor by name: the value returned (NotRun before the call)
    gWorldData, \* GvasHandler.world_data: <<>> for None, else <<world>>
    gWorldName, \* GvasHandler.world_name: "" for None
    gLoaded,    \* GvasHandler.loaded
    pPlayers,   \* SaveFileParser.player_uid_to_containers
    pNames,     \* SaveFileParser.player_names
    pOwner,     \* SaveFileParser.pal_to_owner
    lSnap,      \* the snapshot read by the latest load that succeeded, <<>> before
    lReturn,    \* what the latest load or reload returned: "none", "true", "false"
    lCalls,     \* number of load and reload calls made
    bCharInfo,  \* build_pals: the save parameters of one character (char_info)
    bSpecies,   \* build_pals: the keys of data_loader.pal_species_data
    bPal,       \* build_pals: the PalInfo built for the character, or the exception raised
    tFile,      \* friendship.json: its entries in file order, or NoFile
    tTable,     \* DataLoader.trust_thresholds
    tPoints,    \* calculate_trust_level: the friendship points handed in
    tOut,       \* calculate_trust_level: the level returned
    tPrev,      \* the level returned by the call before
    tOp,        \* "none", "loaded", "level" or "more"
    dNow,       \* the clock, in ticks since the watcher started
    dStart,     \* SaveFileHandler._start_time
    dTask,      \* SaveFileHandler._debounce_task: [id, state]
    dPending,   \* the debounce tasks asleep on the event loop: [id, due]
    dSched,     \* how many debounce tasks were scheduled
    dRuns,      \* how many times the callback ran
    dRanAt,     \* the clock at the last run of the callback
    dEvents,    \* how many modification events were delivered
    dBurst,     \* how many of them were on Level.sav or a Players file after startup
    dLast,      \* the clock at the last of those
    dGapsOk,    \* whether each of those came less than the debounce delay after the one before
    bWorld,     \* the world handed to get_base_assignments and, as base data, to build_guilds
    bAssigned,  \* get_base_assignments: the assignment index, NotRun before the call
    bLocations, \* build_guilds: the base_name of each base listed in base_locations, NotRun before
    wAllowed,   \* config.ENABLE_AUTO_WATCH
    wMount,     \* whether the save path exists
    wPhase,     \* lifespan: "boot", "serving" or "down"
    wWatcher,   \* the global watcher: NoWatcher or a SaveWatcher with its observer
    wActive,    \* the global watch_active
    wObservers, \* the observer threads started and not stopped
    wMade,      \* how many observers were created
    wCalls,     \* how many requests were served
    wLast,      \* the last request and its response
    wBefore     \* watcher, watch_active and the live observers before the last request

fieldVars == <<fData, fSchema, fResult, fUnwrapped, fCall>>

collVars == <<cWorld, cSchema, cResult>>

statVars == <<sIn, sOut, sPrev, sOp>>

asgVars == <<aWorld, aResult, aDone>>

ownVars == <<oWorld, oPlayers, oOwner, oPc>>

namedVars == <<nSchema, nData, nCall, nResult>>

loadVars == <<gWorldData, gWorldName, gLoaded, pPlayers, pNames, pOwner, lSnap, lReturn, lCalls>>

palVars == <<bCharInfo, bSpecies, bPal>>

trustVars == <<tFile, tTable, tPoints, tOut, tPrev, tOp>>

debounceVars == <<dNow, dStart, dTask, dPending, dSched, dRuns, dRanAt, dEvents, dBurst, dLast, dGapsOk>>

guildVars == <<bWorld, bAssigned, bLocations>>

watchVars == <<wAllowed, wMount, wPhase, wWatcher, wActive, wObservers, wMade, wCalls, wLast, wBefore>>

vars == <<fData, fSchema, fResult, fUnwrapped, fCall, cWorld, cSchema, cResult,
          sIn, sOut, sPrev, sOp, aWorld, aResult, aDone,
          oWorld, oPlayers, oOwner, oPc, nSchema, nData, nCall, nResult,
          gWorldData, gWorldName, gLoaded, pPlayers, pNames, pOwner, lSnap, lReturn, lCalls,
          bCharInfo, bSpecies, bPal,
          tFile, tTable, tPoints, tOut, tPrev, tOp,
          dNow, dStart, dTask, dPending, dSched, dRuns, dRanAt, dEvents, dBurst, dLast, dGapsOk,
          bWorld, bAssigned, bLocations,
          wAllowed, wMount, wPhase, wWatcher, wActive, wObservers, wMade, wCalls, wLast, wBefore>>

(***************************************************************************)
(* Property tree.  A node is None, a number, a string (kept as the list of *)
(* its "::"-separated segments), a list or a map from keys to nodes.       *)
(***************************************************************************)
None == [kind |-> "none"]
Num(n) == [kind |-> "num", n |-> n]
Str(segs) == [kind |-> "str", segs |-> segs]
List(items) == [kind |-> "list", items |-> items]
Map(f) == [kind |-> "map", m |-> f]
Raise(exc) == [kind |-> "raise", exc |-> exc]
NotRun == [kind |-> "notrun"]
\* a mapping returned by an accessor, kept as a function from keys to values
Dict(d) == [kind |-> "dict", d |-> d]

IsDict(x) == x.kind = "map"
IsNone(x) == x.kind = "none"
IsRaise(x) == x.kind = "raise"

\* `key in d` for a dict d
HasKey(d, k) == k \in DOMAIN d.m

\* d.get(k) for a dict d: None when the key is missing
DictGet(d, k) == IF k \in DOMAIN d.m THEN d.m[k] ELSE None

(***************************************************************************)
(* Bounds of the trees and schemas the model enumerates.                   *)
(***************************************************************************)
MaxDepth == 2
MaxPath == 2

Keys == {"a", "value"}
RootKey == "a"

Leaves == {None, Num(2500), Str(<<"E", "A">>), List(<<>>)}

\* maps over a subset of Keys whose values are all drawn from S
MapsOver(S) == UNION {{Map(f) : f \in [D -> S]} : D \in SUBSET Keys}

\* maps with exactly one child from Deep, the other keys absent or leaves
SpineMaps(Deep) ==
    UNION {{Map(f) : f \in {g \in [D -> Leaves \cup Deep] :
                             Cardinality({k \in D : g[k] \in Deep}) = 1}} :
           D \in SUBSET Keys}

RECURSIVE NodesUpTo(_)
NodesUpTo(d) ==
    IF d = 0 THEN Leaves
    ELSE IF d = 1 THEN Leaves \cup MapsOver(Leaves)
    ELSE LET below == NodesUpTo(d - 1)
         IN  below \cup SpineMaps(below \ Leaves)

\* a float that is not finite: float('inf') or float('nan')
Float(v) == [kind |-> "float", v |-> v]

\* trees that hold a non-finite float: bare, under the root key, wrapped
FloatTrees ==
    UNION {{Float(v),
            Map([k \in {RootKey} |-> Float(v)]),
            Map([k \in {RootKey} |-> Map([j \in {"value"} |-> Float(v)])])} :
           v \in {"inf", "nan"}}

Nodes == NodesUpTo(MaxDepth) \cup FloatTrees

RECURSIVE SeqsUpTo(_, _)
SeqsUpTo(S, n) ==
    IF n = 0 THEN {<<>>}
    ELSE LET shorter == SeqsUpTo(S, n - 1)
         IN  shorter \cup {Append(s, k) : s \in {t \in shorter : Len(t) = n - 1}, k \in S}

Paths == SeqsUpTo(Keys, MaxPath)

Defaults == {None, Num(7)}

\* what a field declares besides its path: nothing, strip_prefix, enum_map or transform
Post == {"plain", "strip", "enum", "transform"}

FieldSchemas ==
    [hasRoot : BOOLEAN, root : {RootKey}, path : Paths, default : Defaults, post : Post]

(***************************************************************************)
(* SchemaLoader.extract_field                                              *)
(***************************************************************************)

\* mutant of Unwrap: `if` in place of `while`, a single wrapper removed
UnwrapOnce(x) ==
    IF IsDict(x) /\ HasKey(x, "value") THEN x.m["value"] ELSE x

\* the loop `while isinstance(current, dict) and "value" in current`
RECURSIVE Unwrap(_)
Unwrap(x) ==
    IF IsDict(x) /\ HasKey(x, "value") THEN Unwrap(x.m["value"]) ELSE x

\* number of iterations the unwrap loop makes
RECURSIVE UnwrapSteps(_)
UnwrapSteps(x) ==
    IF IsDict(x) /\ HasKey(x, "value") THEN 1 + UnwrapSteps(x.m["value"]) ELSE 0

\* current.split("::")[-1] when strip_prefix is set and "::" occurs in the string
StripPrefix(x) ==
    IF x.kind = "str" /\ Len(x.segs) > 1 THEN Str(<<x.segs[Len(x.segs)]>>) ELSE x

\* the enum_map of the modelled schema: {"A": "Alpha", "E::A": "Scoped"}
EnumMap(x) ==
    IF x = Str(<<"A">>) THEN Str(<<"Alpha">>)
    ELSE IF x = Str(<<"E", "A">>) THEN Str(<<"Scoped">>)
    ELSE x

\* divide_by_1000: numbers above 1000 are divided, other numbers kept, the rest is
\* 100; int() of an infinite float raises OverflowError, int() of a NaN ValueError
DivideBy1000(x) ==
    IF x.kind = "num" /\ x.n > 1000 THEN Num(x.n \div 1000)
    ELSE IF x.kind = "num" THEN x
    ELSE IF x = Float("inf") THEN Raise("OverflowError")
    ELSE IF x = Float("nan") THEN Raise("ValueError")
    ELSE Num(100)

\* the path walk of the root_key branch (lines 129-134): Raise is never produced,
\* a missing step yields the marker "default"
RECURSIVE WalkPath(_, _)
WalkPath(current, path) ==
    IF path = <<>> THEN current
    ELSE IF ~IsDict(current) THEN NotRun
    ELSE LET next == DictGet(current, Head(path))
         IN  IF IsNone(next) THEN NotRun ELSE WalkPath(next, Tail(path))

\* lines 122-147: the value navigation reaches, NotRun for "return default",
\* Raise for an exception leaving extract_field
Navigate(data, fs) ==
    IF fs.hasRoot
    THEN IF ~IsDict(data) THEN Raise("AttributeError")
         ELSE LET current == DictGet(data, fs.root)
              IN  IF IsNone(current) THEN NotRun ELSE WalkPath(current, fs.path)
    ELSE IF fs.path = <<>>
         THEN IF IsDict(data) THEN Raise("UnboundLocalError") ELSE Raise("AttributeError")
         ELSE IF ~IsDict(data) THEN NotRun
         ELSE LET first == DictGet(data, fs.path[1])
              IN  IF IsNone(first) THEN NotRun
                  ELSE IF ~IsDict(first) THEN Raise("AttributeError")
                  ELSE LET second == DictGet(first, fs.path[1])
                       IN  IF IsNone(second) THEN NotRun ELSE second

\* lines 153-173 applied to the unwrapped value
PostProcess(current, fs) ==
    LET stripped == IF fs.post = "strip" THEN StripPrefix(current) ELSE current
        mapped == IF fs.post = "enum" /\ ~IsNone(stripped) THEN EnumMap(stripped) ELSE stripped
        transformed == IF fs.post = "transform" /\ ~IsNone(mapped)
                       THEN DivideBy1000(mapped) ELSE mapped
    IN  IF IsRaise(transformed)
        THEN \* except (ValueError, TypeError): return default
             IF transformed.exc \in {"ValueError", "TypeError"} THEN fs.default
             ELSE transformed
        ELSE IF IsNone(transformed) THEN fs.default ELSE transformed

ExtractField(data, fs) ==
    LET reached == Navigate(data, fs)
    IN  IF IsRaise(reached) THEN reached
        ELSE IF reached = NotRun THEN fs.default
        ELSE PostProcess(Unwrap(reached), fs)

\* `current` after the unwrap loop, NotRun when the loop is not reached
UnwrappedOf(data, fs) ==
    LET reached == Navigate(data, fs)
    IN  IF IsRaise(reached) \/ reached = NotRun THEN NotRun ELSE Unwrap(reached)

\* SchemaLoader._extract_from_path: the item-record projection of extract_list;
\* the field definition carries path, default and strip_prefix only
WalkedFromPath(data, fd) == WalkPath(data, fd.path)

ExtractFromPath(data, fd) ==
    LET reached == WalkedFromPath(data, fd)
    IN  IF reached = NotRun THEN fd.default
        ELSE LET current == Unwrap(reached)
                 stripped == IF fd.post = "strip" THEN StripPrefix(current) ELSE current
             IN  IF IsNone(stripped) THEN fd.default ELSE stripped

(***************************************************************************)
(* SchemaLoader.extract_collection                                         *)
(***************************************************************************)
MaxEntries == 3

\* Python truthiness of a node (`if key_data`, `if not key`)
Truthy(x) ==
    CASE x.kind = "none" -> FALSE
      [] x.kind = "num" -> x.n # 0
      [] x.kind = "str" -> x.segs # <<"">>
      [] x.kind = "list" -> x.items # <<>>
      [] x.kind = "map" -> DOMAIN x.m # {}
      [] OTHER -> TRUE

\* str(x): a string is itself, a number its decimal form, anything else its repr
PyStr(x) ==
    IF x.kind = "str" THEN x
    ELSE IF x.kind = "num" THEN Str(<<ToString(x.n)>>)
    ELSE [kind |-> "str", segs |-> <<"repr">>, of |-> x]

\* _safe_get
SafeGet(data, key) == IF IsDict(data) THEN DictGet(data, key) ELSE None

\* _navigate_path: None as soon as a step is not a dict or is missing
RECURSIVE NavigatePath(_, _)
NavigatePath(data, path) ==
    IF path = <<>> THEN data
    ELSE IF ~IsDict(data) THEN None
    ELSE LET next == SafeGet(data, Head(path))
         IN  IF IsNone(next) THEN None ELSE NavigatePath(next, Tail(path))

\* _extract_key: the key as a string node, None when there is no usable key
ExtractKey(entry, ks) ==
    LET keyData ==
            IF ks.type = "flexible_uuid"
            THEN LET viaDict == NavigatePath(entry, ks.dict_path)
                 IN  IF IsNone(viaDict) THEN NavigatePath(entry, ks.direct_path) ELSE viaDict
            ELSE IF ks.type \in {"nested_uuid", "simple"}
            THEN NavigatePath(entry, ks.path)
            ELSE None
    IN  IF Truthy(keyData) THEN PyStr(keyData) ELSE None

\* _extract_value_from_entry
ExtractValueFromEntry(entry, vs) == NavigatePath(entry, vs.path)

\* result[k] = v on a mapping kept as a function
DictSet(d, k, v) == [x \in DOMAIN d \cup {k} |-> IF x = k THEN v ELSE d[x]]

\* mutant of EntryStep: a key already in the result is not overwritten
EntryStepFirstWins(result, entry, structure) ==
    IF ~IsDict(entry) THEN result
    ELSE LET key == ExtractKey(entry, structure.item_key)
         IN  IF ~Truthy(key) \/ PyStr(key) \in DOMAIN result THEN result
             ELSE LET value == ExtractValueFromEntry(entry, structure.item_value)
                  IN  IF ~IsNone(value) THEN DictSet(result, PyStr(key), value) ELSE result

\* the body of the loop of _extract_list_entries for one entry
EntryStep(result, entry, structure) ==
    IF ~IsDict(entry) THEN result
    ELSE LET key == ExtractKey(entry, structure.item_key)
         IN  IF ~Truthy(key) THEN result
             ELSE LET value == ExtractValueFromEntry(entry, structure.item_value)
                  IN  IF ~IsNone(value) THEN DictSet(result, PyStr(key), value) ELSE result

\* _extract_list_entries: the loop over the entries, in list order
RECURSIVE ExtractListEntriesFrom(_, _, _)
ExtractListEntriesFrom(result, entries, structure) ==
    IF entries = <<>> THEN result
    ELSE ExtractListEntriesFrom(EntryStep(result, Head(entries), structure),
                                Tail(entries), structure)

ExtractListEntries(entries, structure) == ExtractListEntriesFrom(<<>>, entries, structure)

\* walk of structure.path with _safe_get (lines 284-288)
RECURSIVE SafeWalk(_, _)
SafeWalk(current, path) ==
    IF path = <<>> THEN current
    ELSE LET next == SafeGet(current, Head(path))
         IN  IF IsNone(next) THEN None ELSE SafeWalk(next, Tail(path))

\* extract_collection for a declared collection; a non-dict world_data raises
ExtractCollection(world, cs) ==
    IF ~IsDict(world) THEN Raise("AttributeError")
    ELSE LET rootData == DictGet(world, cs.root_key)
         IN  IF ~IsDict(rootData) THEN Dict(<<>>)
             ELSE LET current == SafeWalk(rootData, cs.structure.path)
                  IN  IF IsNone(current) THEN Dict(<<>>)
                      ELSE IF cs.structure.type = "list" /\ current.kind = "list"
                      THEN Dict(ExtractListEntries(current.items, cs.structure))
                      ELSE Dict(<<>>)

\* the entries the model enumerates: "key" absent, a string, the number 0 or a
\* {"value": id} dict; "value" absent, a number or a {"RawData": ..} dict
EntryKeys == {Str(<<"k1">>), Str(<<"k2">>), Num(0), Map([k \in {"value"} |-> Str(<<"k1">>)])}
EntryValues == {Num(1), Map([k \in {"RawData"} |-> Num(2)])}

EntryNodes ==
    {Num(5)} \cup
    {Map(f) : f \in UNION {[D -> EntryKeys \cup EntryValues] : D \in SUBSET {"key", "value"}}}

Entries ==
    {e \in EntryNodes : IsDict(e) => /\ ("key" \in DOMAIN e.m => e.m["key"] \in EntryKeys)
                                     /\ ("value" \in DOMAIN e.m => e.m["value"] \in EntryValues)}

CollRoot == "CharacterSaveParameterMap"

WorldOf(entries) == Map([r \in {CollRoot} |-> Map([k \in {"value"} |-> List(entries)])])

\* trees whose collection root is missing, not a dict, or holds no list
BrokenWorlds ==
    { Map(<<>>),
      Map([r \in {CollRoot} |-> Num(5)]),
      Map([r \in {CollRoot} |-> Map(<<>>)]),
      Map([r \in {CollRoot} |-> Map([k \in {"value"} |-> Num(5)])]) }

Worlds == {WorldOf(es) : es \in SeqsUpTo(Entries, MaxEntries)} \cup BrokenWorlds

KeySchemas ==
    { [type |-> "simple", path |-> <<"key">>, dict_path |-> <<>>, direct_path |-> <<>>],
      [type |-> "nested_uuid", path |-> <<"key", "value">>, dict_path |-> <<>>,
       direct_path |-> <<>>],
      [type |-> "flexible_uuid", path |-> <<>>, dict_path |-> <<"key", "value">>,
       direct_path |-> <<"key">>] }

ValueSchemas == {[path |-> <<"value">>], [path |-> <<"value", "RawData">>]}

CollSchemas ==
    { [root_key |-> CollRoot,
       structure |-> [type |-> "list", path |-> <<"value">>, item_key |-> ks,
                      item_value |-> vs]] : ks \in KeySchemas, vs \in ValueSchemas }

(***************************************************************************)
(* calculate_pal_stats (parser/utils/stats.py).  The code computes in      *)
(* IEEE-754 doubles and floors; the model computes the same floors in      *)
(* integers.  The two agree on every input the model enumerates except in  *)
(* the rank step, where 1 + 3 * 0.05 is the double just below 1.15 and the *)
(* product with a multiple of 20 can round to the double below the exact   *)
(* integer: RankLoss is that case.                                         *)
(***************************************************************************)
MaxLevel == 3

BaseHp == 500
BaseAttack == 100
BaseDefense == 50
BaseWorkSpeed == 70
MaxTrustLevel == 10
MaxRank == 4

Levels == 1..MaxLevel
Ranks == 1..MaxRank
TrustLevels == 0..MaxTrustLevel

\* species_scaling: present = FALSE stands for an empty or missing table
ScalingTables ==
    { [present |-> FALSE, hp |-> 0, attack |-> 0, defense |-> 0],
      [present |-> TRUE, hp |-> 100, attack |-> 100, defense |-> 100],
      [present |-> TRUE, hp |-> 70, attack |-> 0, defense |-> 135],
      [present |-> TRUE, hp |-> 0, attack |-> 120, defense |-> 75] }

TalentSets ==
    { [hp |-> 0, melee |-> 0, shot |-> 0, defense |-> 0],
      [hp |-> 50, melee |-> 20, shot |-> 80, defense |-> 100],
      [hp |-> 100, melee |-> 100, shot |-> 0, defense |-> 30] }

\* friendship_multipliers: keys = {} stands for None or an empty dict
FriendshipTables ==
    { [keys |-> {}, friendship_hp |-> 0, friendship_shotattack |-> 0, friendship_defense |-> 0],
      [keys |-> {"friendship_hp"}, friendship_hp |-> 5, friendship_shotattack |-> 0,
       friendship_defense |-> 0],
      [keys |-> {"friendship_hp", "friendship_shotattack", "friendship_defense"},
       friendship_hp |-> 4, friendship_shotattack |-> 7, friendship_defense |-> 2] }

Effect(type, value, target) == [type |-> type, value |-> value, target |-> target]

\* passive_skills: a list of skills, each the list of its effects
PassiveLists ==
    { <<>>,
      << <<Effect("MaxHP", 10, "ToSelf")>> >>,
      << <<Effect("Attack", 20, "ToSelf"), Effect("Defense", -10, "ToSelf")>>,
         <<Effect("Attack", 10, "ToTrainer")>> >>,
      << <<>>, <<Effect("WorkSpeed", -50, "ToSelf"), Effect("Defence", -20, "ToSelf")>>,
         <<Effect("CraftSpeed", 40, "ToSelf"), Effect("MaxHP", 30, "ToTrainer")>> >> }

StatInputs ==
    [scaling : ScalingTables, level : Levels, talents : TalentSets, rank : Ranks,
     trust : TrustLevels, friendship : FriendshipTables, is_alpha : BOOLEAN,
     passives : PassiveLists]

Max(a, b) == IF a >= b THEN a ELSE b

\* math.floor(applied_growth + iv_bonus_hp): level * scaling * 0.5, times 1.2 for
\* an alpha, plus the IV bonus of the unmultiplied growth (lines 90-112)
HpGrowthTerm(level, scaling, talent, isAlpha) ==
    ((IF isAlpha THEN 1200 ELSE 1000) * level * scaling + 3 * level * scaling * talent)
        \div 2000

\* math.floor(growth + iv_bonus) of attack and defense (lines 123-136, 143-156)
GrowthTerm(level, scaling, talent) ==
    (3 * level * scaling * (1000 + 3 * talent)) \div 40000

\* mutant of TrustBonus: the trust level divides where it should multiply
TrustBonusDivided(num, den, trust, mult) ==
    IF trust > 0 THEN (num * mult) \div (den * 100 * trust) ELSE 0

\* math.floor(growth * (trust_level * mult / 100)) for growth = num / den
TrustBonus(num, den, trust, mult) == (num * trust * mult) \div (den * 100)

\* mutant of HpTrustBonus: the bonus is taken on the alpha-multiplied growth
HpTrustBonusAfterAlpha(in) ==
    IF in.trust > 0 /\ "friendship_hp" \in in.friendship.keys
    THEN TrustBonus((IF in.is_alpha THEN 12 ELSE 10) * in.level * in.scaling.hp
                        + 100 * in.level, 20, in.trust, in.friendship.friendship_hp)
    ELSE 0

\* lines 98-102: the trust bonus of hp, on species growth plus level growth
HpTrustBonus(in) ==
    IF in.trust > 0 /\ "friendship_hp" \in in.friendship.keys
    THEN TrustBonus(in.level * in.scaling.hp + 10 * in.level, 2, in.trust,
                    in.friendship.friendship_hp)
    ELSE 0

\* lines 129-133 and 149-153: the trust bonus of attack / defense, on growth plus IV
GrowthTrustBonus(in, scaling, talent, key, mult) ==
    IF in.trust > 0 /\ key \in in.friendship.keys
    THEN TrustBonus(3 * in.level * scaling * (1000 + 3 * talent), 40000, in.trust, mult)
    ELSE 0

\* x * 1.15 in doubles falls below the exact integer product
RankLoss(x) ==
    /\ x % 20 = 0
    /\ \E k \in 0..20 : 5 * 2^k < 4 * x /\ 115 * x < 200 * 2^k

\* mutant of RankAdjust: the rank multiplier is left out
RankIgnored(x, rank) == x

\* math.floor(base * (1 + (rank - 1) * 0.05)) (lines 115-116, 159-160)
RankAdjust(x, rank) ==
    LET exact == (x * (100 + 5 * (rank - 1))) \div 100
    IN  IF rank = 4 /\ RankLoss(x) THEN exact - 1 ELSE exact

\* the percent values of the ToSelf effects of the given types, summed (lines 172-192)
RECURSIVE EffectSum(_, _)
EffectSum(effects, types) ==
    IF effects = <<>> THEN 0
    ELSE LET e == Head(effects)
         IN  (IF e.target = "ToSelf" /\ e.type \in types THEN e.value ELSE 0)
             + EffectSum(Tail(effects), types)

RECURSIVE PassiveSum(_, _)
PassiveSum(skills, types) ==
    IF skills = <<>> THEN 0
    ELSE EffectSum(Head(skills), types) + PassiveSum(Tail(skills), types)

\* the percent values of the ToSelf effects of the given types, in list order
RECURSIVE EffectValues(_, _)
EffectValues(effects, types) ==
    IF effects = <<>> THEN <<>>
    ELSE LET e == Head(effects)
         IN  (IF e.target = "ToSelf" /\ e.type \in types THEN <<e.value>> ELSE <<>>)
             \o EffectValues(Tail(effects), types)

RECURSIVE PassiveValues(_, _)
PassiveValues(skills, types) ==
    IF skills = <<>> THEN <<>>
    ELSE EffectValues(Head(skills), types) \o PassiveValues(Tail(skills), types)

\* The passive multipliers are IEEE doubles: 1.0 + value/100 + value/100 ...,
\* every division and addition rounded to 53 bits.  A double near p/100 is kept
\* as [p |-> p, d |-> d]: its exact value is p/100 + d * 2^-60 / 100.
Dbl(p, d) == [p |-> p, d |-> d]

RECURSIVE PowMod(_, _, _)
PowMod(b, n, m) ==
    IF n = 0 THEN 1 % m
    ELSE IF n % 2 = 0 THEN PowMod((b * b) % m, n \div 2, m)
    ELSE (b * PowMod(b, n - 1, m)) % m

\* floor(log2(num / den)) for num, den > 0
RECURSIVE Log2Floor(_, _)
Log2Floor(num, den) ==
    IF num >= 2 * den THEN 1 + Log2Floor(num, 2 * den)
    ELSE IF num < den THEN Log2Floor(2 * num, den) - 1
    ELSE 0

\* num / den is a power of two
IsPowerOfTwoOver(num, den) ==
    LET e == Log2Floor(num, den)
    IN  IF e >= 0 THEN num = den * 2^e ELSE num * 2^(0 - e) = den

\* round-to-nearest-even of the exact value p/100 + d * 2^-60/100, p > 0
RoundPositive(p, d) ==
    LET e == IF IsPowerOfTwoOver(p, 100) /\ d < 0
             THEN Log2Floor(p, 100) - 1 ELSE Log2Floor(p, 100)
        half == 100 * 2^(e + 7)
        grid == 2 * half
        low == 2^(e + 8) * ((p * PowMod(2, 52 - e, 200)) % 200)
        rem2 == (low + d) % (2 * grid)
        odd == rem2 >= grid
        rem == rem2 % grid
    IN  IF rem < half \/ (rem = half /\ ~odd) THEN Dbl(p, d - rem)
        ELSE Dbl(p, d + (grid - rem))

\* the double nearest to p/100 + d * 2^-60/100
Round(p, d) ==
    IF p > 0 THEN RoundPositive(p, d)
    ELSE IF p < 0 THEN Dbl(p, 0 - RoundPositive(0 - p, 0 - d).d)
    ELSE Dbl(0, d)

\* value / 100
Hundredth(value) == Round(value, 0)

\* a + b in doubles
FloatAdd(a, b) == Round(a.p + b.p, a.d + b.d)

\* multiplier = 1.0; multiplier += value / 100 for each value in turn
RECURSIVE Accumulate(_, _)
Accumulate(multiplier, values) ==
    IF values = <<>> THEN multiplier
    ELSE Accumulate(FloatAdd(multiplier, Hundredth(Head(values))), Tail(values))

\* math.floor(x * multiplier) for an integer x >= 0: the exact floor, or one
\* less when the exact product is an integer and the double product is rounded
\* to the double below it
FloorOfProduct(x, m) ==
    LET exact == (x * m.p) \div 100
        size == IF exact < 0 THEN 0 - exact ELSE exact
        below == IF exact > 0 /\ IsPowerOfTwoOver(size, 1) THEN Log2Floor(size, 1) - 1
                 ELSE Log2Floor(size, 1)
    IN  IF x = 0 \/ (x * m.p) % 100 # 0 \/ m.d >= 0 THEN exact
        ELSE IF exact = 0 THEN 0 - 1
        ELSE IF x * (0 - m.d) > 100 * 2^(below + 7) THEN exact - 1
        ELSE exact

\* lines 195-206: math.floor(stat * multiplier) unless the multiplier is 1.0
ApplyPassive(x, values) ==
    LET multiplier == Accumulate(Dbl(100, 0), values)
    IN  IF multiplier = Dbl(100, 0) THEN x ELSE FloorOfProduct(x, multiplier)

\* the stat before the rank multiplier (hp_effective_base and its siblings)
HpEffectiveBase(in) ==
    BaseHp + 5 * in.level
      + HpGrowthTerm(in.level, in.scaling.hp, in.talents.hp, in.is_alpha)
      + HpTrustBonus(in)

\* mutant of AttackEffectiveBase: growth factor 0.75 in place of 0.075
AttackEffectiveBaseTenfold(in) ==
    BaseAttack + GrowthTerm(10 * in.level, in.scaling.attack, 0)

AttackEffectiveBase(in) ==
    LET talent == Max(in.talents.melee, in.talents.shot)
    IN  BaseAttack + GrowthTerm(in.level, in.scaling.attack, talent)
          + GrowthTrustBonus(in, in.scaling.attack, talent, "friendship_shotattack",
                             in.friendship.friendship_shotattack)

DefenseEffectiveBase(in) ==
    BaseDefense + GrowthTerm(in.level, in.scaling.defense, in.talents.defense)
      + GrowthTrustBonus(in, in.scaling.defense, in.talents.defense, "friendship_defense",
                         in.friendship.friendship_defense)

CalculatePalStats(in) ==
    IF ~in.scaling.present
    THEN [attack |-> 0, defense |-> 0, hp |-> 0, work_speed |-> BaseWorkSpeed]
    ELSE [hp |-> ApplyPassive(RankAdjust(HpEffectiveBase(in), in.rank),
                              PassiveValues(in.passives, {"MaxHP"})),
          attack |-> ApplyPassive(RankAdjust(AttackEffectiveBase(in), in.rank),
                                  PassiveValues(in.passives, {"Attack"})),
          defense |-> ApplyPassive(RankAdjust(DefenseEffectiveBase(in), in.rank),
                                   PassiveValues(in.passives, {"Defense", "Defence"})),
          work_speed |-> ApplyPassive(BaseWorkSpeed,
                                      PassiveValues(in.passives, {"WorkSpeed", "CraftSpeed"}))]

NoStats == [attack |-> -1, defense |-> -1, hp |-> -1, work_speed |-> -1]

StatIdle ==
    /\ sIn = [scaling |-> [present |-> FALSE, hp |-> 0, attack |-> 0, defense |-> 0],
              level |-> 1,
              talents |-> [hp |-> 0, melee |-> 0, shot |-> 0, defense |-> 0],
              rank |-> 1, trust |-> 0,
              friendship |-> [keys |-> {}, friendship_hp |-> 0,
                              friendship_shotattack |-> 0, friendship_defense |-> 0],
              is_alpha |-> FALSE, passives |-> <<>>]
    /\ sOut = NoStats
    /\ sPrev = NoStats
    /\ sOp = "none"

(***************************************************************************)
(* get_base_assignments (parser/extractors/bases.py).  An identifier is a  *)
(* string, "" standing for a missing or empty one.  A base name is kept as *)
(* the pair <<prefix, rest>> of the string prefix \o rest, the prefix      *)
(* being "Base " or "", so that startswith("Base ") reads the prefix.      *)
(***************************************************************************)
MaxBases == 2
MaxChars == 2

TemplateName == <<"", "TemplateMarker">>
EmptyName == <<"", "">>

BaseIds == {"b1", "b2"}

BaseEntry(id, hasRaw, name, guild, container) ==
    [id |-> id, hasRaw |-> hasRaw, name |-> name, guild |-> guild, container |-> container]

\* the base entries enumerated; hasRaw tells whether RawData.value is a dict, ""
\* is a missing id, guild or worker container
BaseEntries ==
    { BaseEntry("b1", TRUE, TemplateName, "g1", "c1"),
      BaseEntry("b1", TRUE, <<"", "Fort">>, "g1", "c1"),
      BaseEntry("b1", TRUE, EmptyName, "g1", "c2"),
      BaseEntry("b1", TRUE, TemplateName, "g1", ""),
      BaseEntry("b2", TRUE, TemplateName, "g1", "c2"),
      BaseEntry("b2", TRUE, EmptyName, "g1", "c2"),
      BaseEntry("b2", TRUE, <<"Base ", "Camp">>, "g1", "c2"),
      BaseEntry("b2", TRUE, <<"", "Fort">>, "", "c2"),
      BaseEntry("b2", TRUE, <<"", "Fort">>, "g1", "c1"),
      BaseEntry("b2", FALSE, EmptyName, "", "c2"),
      BaseEntry("", TRUE, <<"", "Fort">>, "g1", "c1") }

CharEntry(id, isPlayer, ref) == [id |-> id, isPlayer |-> isPlayer, ref |-> ref]

\* the character entries enumerated; ref is the id under SlotId.ContainerId.ID
CharEntries ==
    { CharEntry("e1", FALSE, "c1"), CharEntry("e1", FALSE, "c2"),
      CharEntry("e1", TRUE, "c1"), CharEntry("e2", FALSE, "c1"),
      CharEntry("e2", FALSE, "c9"), CharEntry("e2", FALSE, ""),
      CharEntry("", FALSE, "c1"), CharEntry("e2", TRUE, "c2") }

\* lines 99-107: the stored name, classified
ClassifyName(name) ==
    IF name = TemplateName THEN <<"", "template">>
    ELSE IF name = EmptyName THEN <<"", "unnamed">>
    ELSE name

\* f"Base {base_id[:8]}"
DefaultBaseName(baseId) == <<"Base ", baseId>>

\* mutant of NumberedName: the position is not shifted to start at 1
NumberedNameZeroBased(n) == <<"Base ", ToString(n - 1)>>

\* f"Base {i + 1}" for the 0-based position i
NumberedName(n) == <<"Base ", ToString(n)>>

\* dict[k] = v on a dict kept as [order, at]: a new key goes last
OrdSet(d, k, v) ==
    [order |-> IF k \in DOMAIN d.at THEN d.order ELSE Append(d.order, k),
     at |-> [x \in DOMAIN d.at \cup {k} |-> IF x = k THEN v ELSE d.at[x]]]

OrdEmpty == [order |-> <<>>, at |-> <<>>]

\* lines 69-129: one base entry read into base_to_container / _guild / _name
ReadBase(t, e) ==
    IF e.id = "" THEN t
    ELSE [container |-> IF e.container # "" THEN OrdSet(t.container, e.id, e.container)
                        ELSE t.container,
          guild |-> IF e.hasRaw /\ e.guild # "" THEN OrdSet(t.guild, e.id, e.guild)
                    ELSE t.guild,
          name |-> IF e.hasRaw THEN OrdSet(t.name, e.id, ClassifyName(e.name))
                   ELSE t.name]

RECURSIVE ReadBases(_, _)
ReadBases(t, entries) ==
    IF entries = <<>> THEN t ELSE ReadBases(ReadBase(t, Head(entries)), Tail(entries))

\* lines 132-138: the bases of a guild, in the key order of base_to_container
GuildBases(t, guildId) ==
    SelectSeq(t.container.order,
              LAMBDA b : b \in DOMAIN t.guild.at /\ t.guild.at[b] = guildId)

SeqRange(q) == {q[i] : i \in 1..Len(q)}

IndexOf(q, x) == CHOOSE i \in 1..Len(q) : q[i] = x

NeedsNumber(name) ==
    name \in {<<"", "template">>, <<"", "unnamed">>} \/ name[1] = "Base "

\* lines 140-144 and 205: the name an assignment to the base carries
FinalBaseName(t, b) ==
    LET original == IF b \in DOMAIN t.name.at THEN t.name.at[b] ELSE DefaultBaseName(b)
    IN  IF b \in DOMAIN t.guild.at /\ b \in DOMAIN t.container.at /\ NeedsNumber(original)
        THEN NumberedName(IndexOf(GuildBases(t, t.guild.at[b]), b))
        ELSE original

\* lines 202-212: the first base, in key order, whose container is the reference
RECURSIVE FirstBaseWith(_, _, _)
FirstBaseWith(t, order, ref) ==
    IF order = <<>> THEN ""
    ELSE IF t.container.at[Head(order)] = ref THEN Head(order)
    ELSE FirstBaseWith(t, Tail(order), ref)

\* mutant of AssignChar: the IsPlayer check is left out
AssignCharPlayersToo(t, result, e) ==
    IF e.id = "" \/ e.ref = "" THEN result
    ELSE LET b == FirstBaseWith(t, t.container.order, e.ref)
         IN  IF b = "" THEN result
             ELSE DictSet(result, e.id,
                          [base_id |-> b,
                           guild_id |-> IF b \in DOMAIN t.guild.at THEN t.guild.at[b] ELSE "",
                           base_name |-> FinalBaseName(t, b)])

\* lines 152-212: one character entry
AssignChar(t, result, e) ==
    IF e.isPlayer \/ e.id = "" \/ e.ref = "" THEN result
    ELSE LET b == FirstBaseWith(t, t.container.order, e.ref)
         IN  IF b = "" THEN result
             ELSE DictSet(result, e.id,
                          [base_id |-> b,
                           guild_id |-> IF b \in DOMAIN t.guild.at THEN t.guild.at[b] ELSE "",
                           base_name |-> FinalBaseName(t, b)])

RECURSIVE AssignChars(_, _, _)
AssignChars(t, result, entries) ==
    IF entries = <<>> THEN result
    ELSE AssignChars(t, AssignChar(t, result, Head(entries)), Tail(entries))

BaseTables(world) ==
    ReadBases([container |-> OrdEmpty, guild |-> OrdEmpty, name |-> OrdEmpty], world.bases)

GetBaseAssignments(world) == AssignChars(BaseTables(world), <<>>, world.chars)

\* bases.py 5-44, get_base_data: the entries that carry an id and raw data, by
\* id; a later entry of the same id replaces the earlier one in its place
RECURSIVE RawBaseData(_, _)
RawBaseData(d, entries) ==
    IF entries = <<>> THEN d
    ELSE LET e == Head(entries)
         IN  RawBaseData(IF e.id # "" /\ e.hasRaw THEN OrdSet(d, e.id, e) ELSE d,
                         Tail(entries))

\* builders/guilds.py 47-54: guild_bases[guild], the bases that have a worker
\* container and this guild, in the order of base_data
BuiltGuildBases(d, guildId) ==
    SelectSeq(d.order, LAMBDA b : d.at[b].container # "" /\ d.at[b].guild = guildId)

\* builders/guilds.py 57-59 and 104-116: base_to_name, the base_name of the
\* base_locations entry of every base of a guild
BaseLocationNames(world) ==
    LET d == RawBaseData(OrdEmpty, world.bases)
    IN  [b \in {x \in DOMAIN d.at : d.at[x].container # "" /\ d.at[x].guild # ""} |->
            NumberedName(IndexOf(BuiltGuildBases(d, d.at[b].guild), b))]

AsgWorlds ==
    [bases : SeqsUpTo(BaseEntries, MaxBases), chars : SeqsUpTo(CharEntries, MaxChars)]

AsgIdle ==
    /\ aWorld = [bases |-> <<>>, chars |-> <<>>]
    /\ aResult = <<>>
    /\ aDone = FALSE

(***************************************************************************)
(* build_player_mapping and build_pal_ownership                            *)
(* (parser/extractors/relationships.py) with extract_player_save_data      *)
(* (parser/extractors/players.py), get_player_data, get_guild_data and     *)
(* get_base_data.  The schema documents (players.yaml, guilds.yaml,        *)
(* bases.yaml, containers.yaml, collections.yaml) are not part of the      *)
(* sources, so an entry is kept as the record of the values its schema     *)
(* fields resolve to, "" standing for a value that is missing or empty.    *)
(***************************************************************************)
MaxFragments == 2
MaxContainers == 2

\* the all-zero id of an empty slot
Sentinel == "00000000-0000-0000-0000-000000000000"

\* one Players/<file>.sav: PlayerUId, IndividualId and the two container ids
Fragment(file, uid, individual, otomo, storage) ==
    [file |-> file, uid |-> uid, individual |-> individual,
     otomo |-> otomo, storage |-> storage]

Fragments ==
    { Fragment("u1", "", "p1", "c1", ""),
      Fragment("u1", "u1", "p1", "c1", "c2"),
      Fragment("u2", "u2", "p2", "c2", ""),
      Fragment("u2", "u2", "", "c1", "c2"),
      Fragment("u2", "u1", "p2", "", "c2") }

\* one entry of the container collection: its key and the instance ids of its slots
ContainerEntry(id, slots) == [id |-> id, slots |-> slots]

ContainerEntries ==
    { ContainerEntry("c1", <<"e1", Sentinel>>),
      ContainerEntry("c1", <<"e2">>),
      ContainerEntry("c2", <<"e1", "e2">>),
      ContainerEntry("c2", <<"", "e2">>),
      ContainerEntry("c3", <<"e3">>),
      ContainerEntry("", <<"e1">>) }

\* one entry of CharacterSaveParameterMap: instance id, IsPlayer and NickName
CharacterEntry(id, isPlayer, hasNick, nick) ==
    [id |-> id, isPlayer |-> isPlayer, hasNick |-> hasNick, nick |-> nick]

CharacterLists ==
    { <<>>,
      <<CharacterEntry("p1", TRUE, TRUE, "Ann"), CharacterEntry("p2", TRUE, FALSE, "")>>,
      <<CharacterEntry("p1", TRUE, TRUE, "Ann"), CharacterEntry("p2", FALSE, TRUE, "Bob")>> }

\* one guild: its id and the player_uid of each member ("" where it has none)
GuildEntry(id, players) == [id |-> id, players |-> players]

\* one base: its id, guild_id and worker_container_id
BaseLink(id, guild, container) == [id |-> id, guild |-> guild, container |-> container]

\* the guilds and bases of the world, enumerated together
Links ==
    { [guilds |-> <<>>, bases |-> <<>>],
      [guilds |-> <<GuildEntry("g1", <<"u1", "u2">>)>>,
       bases |-> <<BaseLink("b1", "g1", "c3"), BaseLink("b2", "g1", "")>>],
      [guilds |-> <<GuildEntry("g1", <<"u2", "">>), GuildEntry("g2", <<>>)>>,
       bases |-> <<BaseLink("b1", "g2", "c3"), BaseLink("b2", "g1", "c1")>>] }

OwnWorlds ==
    [fragments : SeqsUpTo(Fragments, MaxFragments),
     containers : SeqsUpTo(ContainerEntries, MaxContainers),
     chars : CharacterLists,
     links : Links]

\* characters.py 5-46: the save parameters by instance id, a later entry replacing
\* an earlier one
RECURSIVE GetCharacterData(_, _)
GetCharacterData(d, chars) ==
    IF chars = <<>> THEN d
    ELSE LET c == Head(chars)
         IN  GetCharacterData(IF c.id = "" THEN d ELSE DictSet(d, c.id, c), Tail(chars))

\* characters.py 49-72 and relationships.py 35-38: instance_to_name
InstanceToName(world) ==
    LET d == GetCharacterData(<<>>, world.chars)
    IN  [i \in {x \in DOMAIN d : d[x].isPlayer} |->
            IF d[i].hasNick THEN d[i].nick ELSE "Unknown"]

\* players.py 52-56: PlayerUId, or the uid the file name spells
PlayerUidOf(f) == IF f.uid = "" THEN f.file ELSE f.uid

\* players.py 76-83
ContainerIdsOf(f) ==
    (IF f.otomo = "" THEN <<>> ELSE <<f.otomo>>)
      \o (IF f.storage = "" THEN <<>> ELSE <<f.storage>>)

\* players.py 36-96: a fragment without IndividualId is skipped
RECURSIVE ExtractPlayerSaveData(_, _)
ExtractPlayerSaveData(d, fragments) ==
    IF fragments = <<>> THEN d
    ELSE LET f == Head(fragments)
         IN  ExtractPlayerSaveData(
                 IF f.individual = "" THEN d
                 ELSE OrdSet(d, f.individual,
                             [player_uid |-> PlayerUidOf(f),
                              containers |-> ContainerIdsOf(f)]),
                 Tail(fragments))

\* player_uid[:8].upper()
UpperPrefix(uid) ==
    CASE uid = "u1" -> "U1"
      [] uid = "u2" -> "U2"
      [] OTHER -> uid

\* f"Player_{player_uid[:8].upper()}"
FallbackName(uid) == "Player_" \o UpperPrefix(uid)

\* relationships.py 49-59: one mapping entry per fragment read, keyed by player_uid
RECURSIVE MapPlayers(_, _, _, _)
MapPlayers(m, saved, order, names) ==
    IF order = <<>> THEN m
    ELSE LET ind == Head(order)
             info == saved.at[ind]
             name == IF ind \in DOMAIN names THEN names[ind]
                     ELSE FallbackName(info.player_uid)
         IN  MapPlayers(OrdSet(m, info.player_uid,
                               [name |-> name, containers |-> info.containers,
                                instance_id |-> ind]),
                        saved, Tail(order), names)

\* guilds.py 5-44: the guilds by id
RECURSIVE GetGuildData(_, _)
GetGuildData(d, guilds) ==
    IF guilds = <<>> THEN d
    ELSE LET g == Head(guilds)
         IN  GetGuildData(IF g.id = "" THEN d ELSE DictSet(d, g.id, g), Tail(guilds))

\* relationships.py 63-72: guild_to_players, guilds without member uids left out
GuildToPlayers(world) ==
    LET d == GetGuildData(<<>>, world.links.guilds)
        uids(g) == SelectSeq(d[g].players, LAMBDA u : u # "")
    IN  [g \in {x \in DOMAIN d : uids(x) # <<>>} |-> uids(g)]

\* bases.py 5-44: the bases by id, in the order their ids first occur
RECURSIVE GetBaseData(_, _)
GetBaseData(d, bases) ==
    IF bases = <<>> THEN d
    ELSE LET b == Head(bases)
         IN  GetBaseData(IF b.id = "" THEN d ELSE OrdSet(d, b.id, b), Tail(bases))

\* mutant of AppendToPlayers: the container goes to every player of the mapping
AppendToAllPlayers(m, uids, container) ==
    [m EXCEPT !.at = [u \in DOMAIN m.at |->
                        [m.at[u] EXCEPT !.containers = Append(@, container)]]]

\* relationships.py 94-96: the worker container appended to each member's list
RECURSIVE AppendToPlayers(_, _, _)
AppendToPlayers(m, uids, container) ==
    IF uids = <<>> THEN m
    ELSE LET u == Head(uids)
         IN  AppendToPlayers(
                 IF u \in DOMAIN m.at
                 THEN [m EXCEPT !.at[u].containers = Append(@, container)]
                 ELSE m,
                 Tail(uids), container)

\* relationships.py 80-98
RECURSIVE AddWorkerContainers(_, _, _, _)
AddWorkerContainers(m, bases, order, guildToPlayers) ==
    IF order = <<>> THEN m
    ELSE LET b == bases.at[Head(order)]
         IN  AddWorkerContainers(
                 IF b.guild # "" /\ b.container # "" /\ b.guild \in DOMAIN guildToPlayers
                 THEN AppendToPlayers(m, guildToPlayers[b.guild], b.container)
                 ELSE m,
                 bases, Tail(order), guildToPlayers)

\* relationships.py 17-101: player_uid_to_containers
BuildPlayerMapping(world) ==
    LET saved == ExtractPlayerSaveData(OrdEmpty, world.fragments)
        bases == GetBaseData(OrdEmpty, world.links.bases)
    IN  AddWorkerContainers(MapPlayers(OrdEmpty, saved, saved.order, InstanceToName(world)),
                            bases, bases.order, GuildToPlayers(world))

\* schema_loader.py 299-327 for the container collection: the slot lists by key
RECURSIVE ExtractContainers(_, _)
ExtractContainers(d, entries) ==
    IF entries = <<>> THEN d
    ELSE LET e == Head(entries)
         IN  ExtractContainers(IF e.id = "" THEN d ELSE DictSet(d, e.id, e.slots),
                               Tail(entries))

\* mutant of PalIds: the sentinel test is left out
PalIdsWithSentinel(slots) == SelectSeq(slots, LAMBDA id : id # "")

\* relationships.py 130-137: the ids of a slot list, empty slots skipped
PalIds(slots) == SelectSeq(slots, LAMBDA id : id # "" /\ id # Sentinel)

\* relationships.py 128-140: container_map
ContainerMap(containers) == [c \in DOMAIN containers |-> PalIds(containers[c])]

\* relationships.py 156-158
RECURSIVE OwnPals(_, _, _)
OwnPals(owner, pals, name) ==
    IF pals = <<>> THEN owner
    ELSE OwnPals(DictSet(owner, Head(pals), name), Tail(pals), name)

\* relationships.py 154-160: a container id absent from container_map is passed over
RECURSIVE OwnContainers(_, _, _, _)
OwnContainers(owner, containerMap, containerIds, name) ==
    IF containerIds = <<>> THEN owner
    ELSE LET c == Head(containerIds)
         IN  OwnContainers(IF c \in DOMAIN containerMap
                           THEN OwnPals(owner, containerMap[c], name)
                           ELSE owner,
                           containerMap, Tail(containerIds), name)

\* relationships.py 147-162
RECURSIVE OwnPlayers(_, _, _, _)
OwnPlayers(owner, containerMap, m, order) ==
    IF order = <<>> THEN owner
    ELSE LET p == m.at[Head(order)]
         IN  OwnPlayers(OwnContainers(owner, containerMap, p.containers, p.name),
                        containerMap, m, Tail(order))

\* relationships.py 104-165: pal_to_owner
BuildPalOwnership(world, m) ==
    LET containers == ExtractContainers(<<>>, world.containers)
    IN  IF DOMAIN containers = {} THEN <<>>
        ELSE OwnPlayers(<<>>, ContainerMap(containers), m, m.order)

OwnIdle ==
    /\ oWorld = [fragments |-> <<>>, containers |-> <<>>, chars |-> <<>>,
                 links |-> [guilds |-> <<>>, bases |-> <<>>]]
    /\ oPlayers = OrdEmpty
    /\ oOwner = <<>>
    /\ oPc = "start"

(***************************************************************************)
(* SchemaLoader accessors called by name: the schema document holds the    *)
(* declared fields, lists and collections (schema_loader.py 95-97), and    *)
(* extract_field, extract_list and extract_collection look the name up     *)
(* before they read the tree.                                              *)
(***************************************************************************)
MaxItems == 2

\* the names the document declares, per section
DeclaredName == "a"
DeclaredCollection == "characters"

\* the names the callers ask for; "nickname" is declared nowhere
Names == {DeclaredName, DeclaredCollection, "nickname"}

Accessors == {"extract_field", "extract_list", "extract_collection"}

\* the field schemas the document can hold under the declared name
NamedFieldSchemas ==
    { [hasRoot |-> TRUE, root |-> RootKey, path |-> <<>>, default |-> None, post |-> "plain"],
      [hasRoot |-> TRUE, root |-> RootKey, path |-> <<"value">>, default |-> Num(7),
       post |-> "strip"],
      [hasRoot |-> FALSE, root |-> RootKey, path |-> <<"a">>, default |-> Num(7),
       post |-> "plain"] }

\* an item field definition of a list schema: path, default, strip_prefix
ItemDef(path, default, post) == [path |-> path, default |-> default, post |-> post]

\* the list schemas the document can hold: the path below data[list_name] and
\* the item-record schema (hasItems FALSE when `items` is not declared)
ListSchemas ==
    { [path |-> <<>>, hasItems |-> FALSE, items |-> <<>>],
      [path |-> <<"value">>, hasItems |-> FALSE, items |-> <<>>],
      [path |-> <<>>, hasItems |-> TRUE,
       items |-> [k \in {"id"} |-> ItemDef(<<"a">>, None, "strip")]],
      [path |-> <<"value">>, hasItems |-> TRUE,
       items |-> [k \in {"id", "n"} |->
                    IF k = "id" THEN ItemDef(<<"a">>, Num(7), "plain")
                    ELSE ItemDef(<<"value">>, None, "plain")]] }

NamedCollSchema ==
    [root_key |-> CollRoot,
     structure |-> [type |-> "list", path |-> <<"value">>,
                    item_key |-> [type |-> "simple", path |-> <<"key">>, dict_path |-> <<>>,
                                  direct_path |-> <<>>],
                    item_value |-> [path |-> <<"value">>]]]

\* the schema documents enumerated
SchemaDocs ==
    { [fields |-> [n \in {DeclaredName} |-> fs],
       lists |-> [n \in {DeclaredName} |-> ls],
       collections |-> [n \in {DeclaredCollection} |-> NamedCollSchema]] :
      fs \in NamedFieldSchemas, ls \in ListSchemas }

\* the elements of the lists enumerated
ListItems ==
    { Num(5), Map(<<>>), Map([k \in {"a"} |-> Str(<<"E", "A">>)]),
      Map([k \in {"a", "value"} |-> IF k = "a" THEN Map([v \in {"value"} |-> Num(1)])
                                    ELSE Num(2)]) }

\* trees holding a list under the declared name, directly or under "value"
ListTrees ==
    UNION { {Map([k \in {DeclaredName} |-> List(items)]),
             Map([k \in {DeclaredName} |-> Map([v \in {"value"} |-> List(items)])])} :
            items \in SeqsUpTo(ListItems, MaxItems) }

\* the trees handed to the accessors
NamedData ==
    Nodes \cup ListTrees
      \cup {WorldOf(<<Map([k \in {"key", "value"} |->
                             IF k = "key" THEN Str(<<"k1">>) ELSE Num(1)])>>)}

\* lines 197-202: the walk below data[list_name]; a non-dict step ends the walk
\* with the value reached, a missing step ends the call with []
RECURSIVE WalkList(_, _)
WalkList(current, path) ==
    IF path = <<>> THEN current
    ELSE IF ~IsDict(current) THEN current
    ELSE LET next == DictGet(current, Head(path))
         IN  IF IsNone(next) THEN NotRun ELSE WalkList(next, Tail(path))

\* lines 215-218: one element projected through the item-record schema
ProjectItem(entry, items) == Map([k \in DOMAIN items |-> ExtractFromPath(entry, items[k])])

\* mutant of ProjectItems: the elements that are no dicts are projected too
RECURSIVE ProjectItemsKeepAll(_, _)
ProjectItemsKeepAll(entries, items) ==
    IF entries = <<>> THEN <<>>
    ELSE <<ProjectItem(Head(entries), items)>> \o ProjectItemsKeepAll(Tail(entries), items)

\* lines 210-221: the elements that are dicts, projected in list order
RECURSIVE ProjectItems(_, _)
ProjectItems(entries, items) ==
    IF entries = <<>> THEN <<>>
    ELSE IF ~IsDict(Head(entries)) THEN ProjectItems(Tail(entries), items)
    ELSE <<ProjectItem(Head(entries), items)>> \o ProjectItems(Tail(entries), items)

\* extract_list for a declared list (lines 189-224)
ExtractList(data, name, ls) ==
    IF ~IsDict(data) THEN Raise("AttributeError")
    ELSE LET top == DictGet(data, name)
         IN  IF IsNone(top) THEN List(<<>>)
             ELSE LET current == WalkList(top, ls.path)
                  IN  IF current = NotRun \/ current.kind # "list" THEN List(<<>>)
                      ELSE IF ls.hasItems THEN List(ProjectItems(current.items, ls.items))
                      ELSE current

\* extract_field(data, field_name): lines 111-113, then the declared schema
ExtractFieldByName(doc, data, name) ==
    IF name \notin DOMAIN doc.fields THEN None
    ELSE ExtractField(data, doc.fields[name])

\* extract_list(data, list_name): lines 185-187, then the declared schema
ExtractListByName(doc, data, name) ==
    IF name \notin DOMAIN doc.lists THEN List(<<>>)
    ELSE ExtractList(data, name, doc.lists[name])

\* extract_collection(world_data, collection_name): lines 270-272, then the
\* declared schema
ExtractCollectionByName(doc, data, name) ==
    IF name \notin DOMAIN doc.collections THEN Dict(<<>>)
    ELSE ExtractCollection(data, doc.collections[name])

NamedIdle ==
    /\ nSchema = [fields |-> <<>>, lists |-> <<>>, collections |-> <<>>]
    /\ nData = None
    /\ nCall = <<"none", "">>
    /\ nResult = NotRun

(***************************************************************************)
(* SaveFileParser.load / reload (parser/__init__.py) over GvasHandler.load *)
(* (parser/loaders/gvas_handler.py).  A snapshot is what the mounted       *)
(* directory holds when a load reads it: Level.sav (missing, unreadable or *)
(* decoded to a world with its Players fragments) and the WorldName of     *)
(* LevelMeta.sav, NoMeta when the file or the property is missing.  A      *)
(* "damaged" Level.sav decodes to the world, but one entry of its          *)
(* character map holds None where the object map belongs.                  *)
(***************************************************************************)
MaxLoads == 4

NoMeta == ""

MetaNames == {"Alpha", "Beta"}

EmptyWorld ==
    [fragments |-> <<>>, containers |-> <<>>, chars |-> <<>>,
     links |-> [guilds |-> <<>>, bases |-> <<>>]]

\* the worlds a snapshot can decode to
SnapshotWorlds ==
    { EmptyWorld,
      [fragments |-> <<Fragment("u1", "u1", "p1", "c1", "c2")>>,
       containers |-> <<ContainerEntry("c1", <<"e1", Sentinel>>)>>,
       chars |-> <<CharacterEntry("p1", TRUE, TRUE, "Ann"),
                   CharacterEntry("p2", TRUE, FALSE, "")>>,
       links |-> [guilds |-> <<>>, bases |-> <<>>]],
      [fragments |-> <<Fragment("u2", "u2", "p2", "c2", "")>>,
       containers |-> <<ContainerEntry("c2", <<"e1", "e2">>),
                        ContainerEntry("c3", <<"e3">>)>>,
       chars |-> <<>>,
       links |-> [guilds |-> <<GuildEntry("g1", <<"u1", "u2">>)>>,
                  bases |-> <<BaseLink("b1", "g1", "c3"), BaseLink("b2", "g1", "")>>]] }

Snapshots ==
    [level : {"ok", "missing", "unreadable", "damaged"}, world : SnapshotWorlds,
     meta : MetaNames \cup {NoMeta}]

\* relationships.py 59: player_names, one entry per key of the mapping
PlayerNames(m) == [u \in DOMAIN m.at |-> m.at[u].name]

\* gvas_handler.py 65-80: world_name is assigned only when LevelMeta.sav holds one
LoadWorldName(previous, snap) == IF snap.meta # NoMeta THEN snap.meta ELSE previous

\* parser/__init__.py 74: the world name get_save_info reports
ReportedWorldName(name) == IF name = "" THEN "My World" ELSE name

LoadIdle ==
    /\ gWorldData = <<>>
    /\ gWorldName = ""
    /\ gLoaded = FALSE
    /\ pPlayers = OrdEmpty
    /\ pNames = <<>>
    /\ pOwner = <<>>
    /\ lSnap = <<>>
    /\ lReturn = "none"
    /\ lCalls = 0

(***************************************************************************)
(* build_pals (parser/builders/pals.py) for one non-player character, with *)
(* get_val (parser/utils/helpers.py).  A character id is the sequence of   *)
(* its characters; the species tables of the data loader are kept as the   *)
(* set of their keys.                                                      *)
(***************************************************************************)
MaxWrap == 3

\* the prefixes build_pals tests for, and two it does not
BOSS == <<"B", "O", "S", "S", "_">>
Boss == <<"B", "o", "s", "s", "_">>
Markers == {<<>>, BOSS, Boss, <<"b", "o", "s", "s", "_">>}

Stems == {<<"A", "n">>, <<"a", "n">>, <<"L", "a">>}

CharacterIds == {mk \o st : mk \in Markers, st \in Stems}

\* the ids the species tables may hold
SpeciesIds == {<<"A", "n">>, <<"a", "n">>, <<"L", "a">>, BOSS \o <<"A", "n">>}

\* {'value': x}
Wrap(x) == Map([k \in {"value"} |-> x])

RECURSIVE Wrapped(_, _)
Wrapped(x, n) == IF n = 0 THEN x ELSE Wrap(Wrapped(x, n - 1))

\* a NickName property: a name or None inside up to MaxWrap wrappers
NickNames == {Wrapped(x, n) : x \in {Str(<<"Bob">>), None}, n \in 0..MaxWrap}

\* char_info: CharacterID always stored, NickName stored or not
CharInfos ==
    {Map([k \in {"CharacterID"} |-> Wrap(Str(id))]) : id \in CharacterIds}
      \cup {Map([k \in {"CharacterID", "NickName"} |->
                    IF k = "CharacterID" THEN Wrap(Str(id)) ELSE nick]) :
              id \in CharacterIds, nick \in NickNames}

\* helpers.py 5-30
GetVal(data, key, default) ==
    LET val == DictGet(data, key)
        once == IF IsDict(val) /\ HasKey(val, "value") THEN val.m["value"] ELSE val
        twice == IF IsDict(val) /\ HasKey(val, "value")
                      /\ IsDict(once) /\ HasKey(once, "value")
                 THEN once.m["value"] ELSE once
    IN  IF IsNone(val) \/ IsNone(twice) THEN default ELSE twice

\* str.startswith
StartsWith(s, prefix) == Len(s) >= Len(prefix) /\ SubSeq(s, 1, Len(prefix)) = prefix

\* pals.py 101-105: char_id[5:] behind "BOSS_" or "Boss_"
LookupId(charId) ==
    IF StartsWith(charId, BOSS) \/ StartsWith(charId, Boss)
    THEN SubSeq(charId, 6, Len(charId))
    ELSE charId

\* pals.py 248: data_loader.pal_species_data.get(lookup_id), <<>> for None
SpeciesData(species, lookupId) == IF lookupId \in species THEN <<lookupId>> ELSE <<>>

\* pals.py 106: data_loader.pal_names.get(lookup_id, char_id), the entry of a
\* species standing for its localized name
PalName(species, lookupId, charId) == IF lookupId \in species THEN lookupId ELSE charId

\* models.py 41: nickname: Optional[str]
ValidNickname(x) == x.kind \in {"none", "str"}

\* pals.py 92-326 for one entry that is not a player
BuildPal(charInfo, species) ==
    LET charId == GetVal(charInfo, "CharacterID", Str(<<"Unknown">>)).segs
        nickname == GetVal(charInfo, "NickName", None)
    IN  IF ~ValidNickname(nickname) THEN Raise("ValidationError")
        ELSE [kind |-> "pal",
              character_id |-> charId,
              name |-> PalName(species, LookupId(charId), charId),
              species |-> SpeciesData(species, LookupId(charId)),
              nickname |-> nickname,
              is_boss |-> StartsWith(charId, BOSS) \/ StartsWith(charId, Boss)]

PalIdle ==
    /\ bCharInfo = Map(<<>>)
    /\ bSpecies = {}
    /\ bPal = NotRun

TrustIdle ==
    /\ tFile = [exists |-> FALSE, entries |-> <<>>]
    /\ tTable = <<>>
    /\ tPoints = None
    /\ tOut = 0
    /\ tPrev = 0
    /\ tOp = "none"

DebounceIdle ==
    /\ dNow = 0
    /\ dStart = 0
    /\ dTask = [id |-> 0, state |-> "none"]
    /\ dPending = {}
    /\ dSched = 0
    /\ dRuns = 0
    /\ dRanAt = 0
    /\ dEvents = 0
    /\ dBurst = 0
    /\ dLast = 0
    /\ dGapsOk = TRUE

GuildIdle ==
    /\ bWorld = [bases |-> <<>>, chars |-> <<>>]
    /\ bAssigned = NotRun
    /\ bLocations = NotRun

WatchIdle ==
    /\ wAllowed = FALSE
    /\ wMount = FALSE
    /\ wPhase = "boot"
    /\ wWatcher = [kind |-> "none"]
    /\ wActive = FALSE
    /\ wObservers = {}
    /\ wMade = 0
    /\ wCalls = 0
    /\ wLast = [call |-> "none", response |-> "none"]
    /\ wBefore = [watcher |-> [kind |-> "none"], active |-> FALSE, observers |-> {}]

\* the other subsystems at rest
FieldIdle ==
    /\ fData = None
    /\ fSchema = [hasRoot |-> TRUE, root |-> RootKey, path |-> <<>>,
                  default |-> None, post |-> "plain"]
    /\ fResult = NotRun
    /\ fUnwrapped = NotRun
    /\ fCall = "none"

CollIdle ==
    /\ cWorld = Map(<<>>)
    /\ cSchema = [root_key |-> CollRoot,
                  structure |-> [type |-> "list", path |-> <<"value">>,
                                 item_key |-> [type |-> "simple", path |-> <<"key">>,
                                               dict_path |-> <<>>, direct_path |-> <<>>],
                                 item_value |-> [path |-> <<"value">>]]]
    /\ cResult = NotRun

\* any node and any declared field, before the call
FieldInit ==
    /\ fData \in Nodes
    /\ fSchema \in FieldSchemas
    /\ fResult = NotRun
    /\ fUnwrapped = NotRun
    /\ fCall = "none"

\* one call extract_field(data, field_name) with field_name declared in the schema
CallExtractField ==
    /\ fCall = "none"
    /\ fCall' = "extract_field"
    /\ fResult' = ExtractField(fData, fSchema)
    /\ fUnwrapped' = UnwrappedOf(fData, fSchema)
    /\ UNCHANGED <<fData, fSchema>>
    /\ UNCHANGED <<collVars, statVars, asgVars, ownVars, namedVars, loadVars, palVars, trustVars, debounceVars, guildVars, watchVars>>

\* one call _extract_from_path(entry, field_def)
CallExtractFromPath ==
    /\ fCall = "none"
    /\ fSchema.post \in {"plain", "strip"}
    /\ ~fSchema.hasRoot
    /\ IsDict(fData)
    /\ fCall' = "_extract_from_path"
    /\ fResult' = ExtractFromPath(fData, fSchema)
    /\ fUnwrapped' = (LET reached == WalkedFromPath(fData, fSchema)
                      IN  IF reached = NotRun THEN NotRun ELSE Unwrap(reached))
    /\ UNCHANGED <<fData, fSchema>>
    /\ UNCHANGED <<collVars, statVars, asgVars, ownVars, namedVars, loadVars, palVars, trustVars, debounceVars, guildVars, watchVars>>

InitField == FieldInit /\ CollIdle /\ StatIdle /\ AsgIdle /\ OwnIdle /\ NamedIdle /\ LoadIdle /\ PalIdle /\ TrustIdle /\ DebounceIdle /\ GuildIdle /\ WatchIdle

FieldNext == CallExtractField \/ CallExtractFromPath

SpecField == InitField /\ [][FieldNext]_vars

(***************************************************************************)
(* Claims about extract_field                                              *)
(***************************************************************************)

EmptyMap == Map(<<>>)

\* C1: for every declared field, extract_field on an empty map returns exactly the
\* field's declared default and does not raise.
C1_DefaultOnEmptyMap ==
    (fCall = "extract_field" /\ fData = EmptyMap) => fResult = fSchema.default

\* C2: for a declared field and any node, extract_field never raises: it returns an
\* extracted value or the declared default.
C2_ExtractFieldNeverRaises ==
    fCall = "extract_field" => ~IsRaise(fResult)

\* C4: the value left by the unwrap loop is a fixed point of the unwrap step
\* (unwrap(unwrap(x)) = unwrap(x)), and the loop stops after at most as many
\* iterations as the tree is deep.
C4_UnwrapIdempotent ==
    fUnwrapped # NotRun =>
        /\ Unwrap(fUnwrapped) = fUnwrapped
        /\ UnwrapSteps(fUnwrapped) = 0
        /\ ~(IsDict(fUnwrapped) /\ HasKey(fUnwrapped, "value"))

\* C4 witness: a call whose loop removed two nested wrappers.
C4_Witness ==
    /\ fCall = "_extract_from_path"
    /\ fSchema.path = <<>>
    /\ UnwrapSteps(fData) = 2
    /\ fUnwrapped = Num(2500)

(***************************************************************************)
(* extract_collection: specification and claims                            *)
(***************************************************************************)
CollInit ==
    /\ cWorld \in Worlds
    /\ cSchema \in CollSchemas
    /\ cResult = NotRun

\* one call extract_collection(world_data, collection_name), the name declared
CallExtractCollection ==
    /\ cResult = NotRun
    /\ cResult' = ExtractCollection(cWorld, cSchema)
    /\ UNCHANGED <<cWorld, cSchema>>
    /\ UNCHANGED <<fieldVars, statVars, asgVars, ownVars, namedVars, loadVars, palVars, trustVars, debounceVars, guildVars, watchVars>>

InitColl == CollInit /\ FieldIdle /\ StatIdle /\ AsgIdle /\ OwnIdle /\ NamedIdle /\ LoadIdle /\ PalIdle /\ TrustIdle /\ DebounceIdle /\ GuildIdle /\ WatchIdle

CollNext == CallExtractCollection

SpecColl == InitColl /\ [][CollNext]_vars

\* the entries of the located list, <<>> when the tree holds no list
EntriesOf(world) ==
    LET located == NavigatePath(world, <<CollRoot, "value">>)
    IN  IF located.kind = "list" THEN located.items ELSE <<>>

KeyAt(i) == ExtractKey(EntriesOf(cWorld)[i], cSchema.structure.item_key)
ValueAt(i) == ExtractValueFromEntry(EntriesOf(cWorld)[i], cSchema.structure.item_value)
KeyedEntry(i) == IsDict(EntriesOf(cWorld)[i]) /\ ~IsNone(KeyAt(i))

\* C3 as stated: of two entries with the same extracted key the later one's value
\* is the value of the single mapping under that key.
C3_LastEntryWins ==
    cResult.kind = "dict" =>
        \A i, j \in 1..Len(EntriesOf(cWorld)) :
            (i < j /\ KeyedEntry(i) /\ KeyedEntry(j) /\ KeyAt(i) = KeyAt(j)
                   /\ ~\E l \in (j + 1)..Len(EntriesOf(cWorld)) :
                          KeyedEntry(l) /\ KeyAt(l) = KeyAt(j))
            => /\ KeyAt(j) \in DOMAIN cResult.d
               /\ cResult.d[KeyAt(j)] = ValueAt(j)

\* C3 amended: the mapping under a key is the value of the last entry with that
\* key whose value path resolves; entries whose value is missing write nothing.
C3_LastValuedEntryWins ==
    cResult.kind = "dict" =>
        \A j \in 1..Len(EntriesOf(cWorld)) :
            (/\ KeyedEntry(j) /\ ~IsNone(ValueAt(j))
             /\ ~\E l \in (j + 1)..Len(EntriesOf(cWorld)) :
                    KeyedEntry(l) /\ KeyAt(l) = KeyAt(j) /\ ~IsNone(ValueAt(l)))
            => /\ KeyAt(j) \in DOMAIN cResult.d
               /\ cResult.d[KeyAt(j)] = ValueAt(j)

\* C3 witness: two entries with the same key and different values, the later kept
C3_Witness ==
    /\ cResult.kind = "dict"
    /\ \E i, j \in 1..Len(EntriesOf(cWorld)) :
          /\ i < j /\ KeyedEntry(i) /\ KeyedEntry(j) /\ KeyAt(i) = KeyAt(j)
          /\ ~IsNone(ValueAt(i)) /\ ~IsNone(ValueAt(j)) /\ ValueAt(i) # ValueAt(j)
          /\ cResult.d = (KeyAt(j) :> ValueAt(j))

(***************************************************************************)
(* calculate_pal_stats: specification and claims                           *)
(***************************************************************************)
StatInit ==
    /\ sIn \in StatInputs
    /\ sOut = NoStats
    /\ sPrev = NoStats
    /\ sOp = "none"

\* a call of calculate_pal_stats with the arguments sIn
CallCalculate ==
    /\ sOp = "none"
    /\ sOp' = "calc"
    /\ sOut' = CalculatePalStats(sIn)
    /\ UNCHANGED <<sIn, sPrev>>
    /\ UNCHANGED <<fieldVars, collVars, asgVars, ownVars, namedVars, loadVars, palVars, trustVars, debounceVars, guildVars, watchVars>>

\* a second call, the trust level raised and every other argument as before
CallWithHigherTrust ==
    /\ sOp = "calc"
    /\ \E t \in TrustLevels :
          /\ t > sIn.trust
          /\ sIn' = [sIn EXCEPT !.trust = t]
    /\ sOp' = "trust"
    /\ sPrev' = sOut
    /\ sOut' = CalculatePalStats(sIn')
    /\ UNCHANGED <<fieldVars, collVars, asgVars, ownVars, namedVars, loadVars, palVars, trustVars, debounceVars, guildVars, watchVars>>

\* a second call, rank 4 in place of rank 1 and every other argument as before
CallWithTopRank ==
    /\ sOp = "calc"
    /\ sIn.rank = 1
    /\ sIn' = [sIn EXCEPT !.rank = MaxRank]
    /\ sOp' = "rank"
    /\ sPrev' = sOut
    /\ sOut' = CalculatePalStats(sIn')
    /\ UNCHANGED <<fieldVars, collVars, asgVars, ownVars, namedVars, loadVars, palVars, trustVars, debounceVars, guildVars, watchVars>>

\* a second call, is_alpha true in place of false and every other argument as before
CallAsAlpha ==
    /\ sOp = "calc"
    /\ ~sIn.is_alpha
    /\ sIn' = [sIn EXCEPT !.is_alpha = TRUE]
    /\ sOp' = "alpha"
    /\ sPrev' = sOut
    /\ sOut' = CalculatePalStats(sIn')
    /\ UNCHANGED <<fieldVars, collVars, asgVars, ownVars, namedVars, loadVars, palVars, trustVars, debounceVars, guildVars, watchVars>>

\* pals.py 270-281: the call build_pals makes; passive_skills is not among its
\* arguments and takes its default None
BuilderStats(in) == CalculatePalStats([in EXCEPT !.passives = <<>>])

\* build_pals computes the calculated_* fields of the pal described by sIn
CallFromBuildPals ==
    /\ sOp = "none"
    /\ sOp' = "build"
    /\ sOut' = BuilderStats(sIn)
    /\ UNCHANGED <<sIn, sPrev>>
    /\ UNCHANGED <<fieldVars, collVars, asgVars, ownVars, namedVars, loadVars, palVars, trustVars, debounceVars, guildVars, watchVars>>

Reverse(s) == [i \in 1..Len(s) |-> s[Len(s) + 1 - i]]

\* a second call, the passive skills in the opposite order
CallWithPassivesReversed ==
    /\ sOp = "calc"
    /\ Len(sIn.passives) > 1
    /\ sIn' = [sIn EXCEPT !.passives = Reverse(sIn.passives)]
    /\ sOp' = "order"
    /\ sPrev' = sOut
    /\ sOut' = CalculatePalStats(sIn')
    /\ UNCHANGED <<fieldVars, collVars, asgVars, ownVars, namedVars, loadVars, palVars, trustVars, debounceVars, guildVars, watchVars>>

InitStat == StatInit /\ FieldIdle /\ CollIdle /\ AsgIdle /\ OwnIdle /\ NamedIdle /\ LoadIdle /\ PalIdle /\ TrustIdle /\ DebounceIdle /\ GuildIdle /\ WatchIdle

StatNext ==
    \/ CallCalculate \/ CallWithHigherTrust \/ CallWithTopRank \/ CallAsAlpha
    \/ CallWithPassivesReversed \/ CallFromBuildPals

SpecStat == InitStat /\ [][StatNext]_vars

Plain(in) ==
    /\ in.scaling.present
    /\ in.talents = [hp |-> 0, melee |-> 0, shot |-> 0, defense |-> 0]
    /\ in.rank = 1 /\ in.trust = 0 /\ ~in.is_alpha /\ in.passives = <<>>

\* C5: with talents 0, rank 1, trust 0, no alpha and no passives the stats are
\* hp = 500 + 5*level + floor(level*scaling.hp/2), attack = 100 +
\* floor(level*scaling.attack*0.075), defense = 50 + floor(level*scaling.defense*0.075);
\* scaling 100/100/100 at level 1 gives 555 / 107 / 57.
C5_StatFormula ==
    (sOp = "calc" /\ Plain(sIn)) =>
        /\ sOut.hp = 500 + 5 * sIn.level + (sIn.level * sIn.scaling.hp) \div 2
        /\ sOut.attack = 100 + (sIn.level * sIn.scaling.attack * 75) \div 1000
        /\ sOut.defense = 50 + (sIn.level * sIn.scaling.defense * 75) \div 1000
        /\ (sIn.level = 1 /\ sIn.scaling.hp = 100 /\ sIn.scaling.attack = 100
                /\ sIn.scaling.defense = 100)
              => (sOut.hp = 555 /\ sOut.attack = 107 /\ sOut.defense = 57)

\* C5 witness: the concrete case of the regression
C5_Witness ==
    /\ sOp = "calc" /\ Plain(sIn) /\ sIn.level = 1
    /\ sIn.scaling = [present |-> TRUE, hp |-> 100, attack |-> 100, defense |-> 100]
    /\ sOut.hp = 555 /\ sOut.attack = 107 /\ sOut.defense = 57

C7_TrustMonotone ==
    sOp = "trust" =>
        /\ sOut.hp >= sPrev.hp
        /\ sOut.attack >= sPrev.attack
        /\ sOut.defense >= sPrev.defense
        /\ sOut.work_speed >= sPrev.work_speed

\* C7 witness: a raise of the trust level that raised hp, attack and defense
C7_Witness ==
    /\ sOp = "trust"
    /\ sOut.hp > sPrev.hp /\ sOut.attack > sPrev.attack /\ sOut.defense > sPrev.defense

\* C8: with every other argument fixed, rank 4 in place of rank 1 strictly raises
\* hp, attack and defense whenever their value at rank 1 is positive.
C8_RankMonotone ==
    sOp = "rank" =>
        /\ sPrev.hp > 0 => sOut.hp > sPrev.hp
        /\ sPrev.attack > 0 => sOut.attack > sPrev.attack
        /\ sPrev.defense > 0 => sOut.defense > sPrev.defense

\* C8 witness: a rank raise on a base of 100 (attack with scaling 0), where the
\* double product 100 * 1.15 floors to 114
C8_Witness ==
    /\ sOp = "rank" /\ sIn.passives = <<>>
    /\ sPrev.attack = 100 /\ sOut.attack = 114
    /\ sOut.hp > sPrev.hp /\ sOut.defense > sPrev.defense

(***************************************************************************)
(* build_player_mapping, build_pal_ownership: specification and claims     *)
(***************************************************************************)
OwnInit ==
    /\ oWorld \in OwnWorlds
    /\ oPlayers = OrdEmpty
    /\ oOwner = <<>>
    /\ oPc = "start"

\* player_uid_to_containers, _ = build_player_mapping(world_data, players_dir)
CallBuildPlayerMapping ==
    /\ oPc = "start"
    /\ oPlayers' = BuildPlayerMapping(oWorld)
    /\ oPc' = "mapped"
    /\ UNCHANGED <<oWorld, oOwner>>
    /\ UNCHANGED <<fieldVars, collVars, statVars, asgVars, namedVars, loadVars, palVars, trustVars, debounceVars, guildVars, watchVars>>

\* pal_to_owner = build_pal_ownership(world_data, player_uid_to_containers)
CallBuildPalOwnership ==
    /\ oPc = "mapped"
    /\ oOwner' = BuildPalOwnership(oWorld, oPlayers)
    /\ oPc' = "owned"
    /\ UNCHANGED <<oWorld, oPlayers>>
    /\ UNCHANGED <<fieldVars, collVars, statVars, asgVars, namedVars, loadVars, palVars, trustVars, debounceVars, guildVars, watchVars>>

InitOwn == OwnInit /\ FieldIdle /\ CollIdle /\ StatIdle /\ AsgIdle /\ NamedIdle /\ LoadIdle /\ PalIdle /\ TrustIdle /\ DebounceIdle /\ GuildIdle /\ WatchIdle

OwnNext == CallBuildPlayerMapping \/ CallBuildPalOwnership

SpecOwn == InitOwn /\ [][OwnNext]_vars

\* the slot list the container collection holds under an id: that of the last
\* entry keyed by it
SlotListOf(world, c) ==
    LET idx == {i \in 1..Len(world.containers) : world.containers[i].id = c}
    IN  IF idx = {} THEN <<>>
        ELSE world.containers[CHOOSE i \in idx : \A j \in idx : j <= i].slots

\* the entity instance ids in the slot list of container c, the sentinel excluded
EntityIdsIn(world, c) ==
    {SlotListOf(world, c)[i] : i \in 1..Len(SlotListOf(world, c))} \ {"", Sentinel}

\* the container ids in the container list of player uid
ContainerListOf(uid) ==
    {oPlayers.at[uid].containers[i] : i \in 1..Len(oPlayers.at[uid].containers)}

\* C9: after build_player_mapping then build_pal_ownership the keys of the
\* entity-to-owner index are exactly the non-sentinel instance ids in the slot
\* list of a container whose id is in some player's container list; the sentinel
\* is never a key, and each key maps to the display name of a player whose
\* container list holds a container containing it.
C9_OwnershipIndex ==
    oPc = "owned" =>
        /\ DOMAIN oOwner =
              UNION {EntityIdsIn(oWorld, c) :
                       c \in UNION {ContainerListOf(u) : u \in DOMAIN oPlayers.at}}
        /\ Sentinel \notin DOMAIN oOwner
        /\ \A e \in DOMAIN oOwner :
              \E u \in DOMAIN oPlayers.at :
                 /\ oOwner[e] = oPlayers.at[u].name
                 /\ \E c \in ContainerListOf(u) : e \in EntityIdsIn(oWorld, c)

\* C9 witness: two players; one holds a container with an entity and an empty
\* (sentinel) slot, the other owns an entity through a base worker container
\* appended to its list, and the two owners differ
C9_Witness ==
    /\ oPc = "owned"
    /\ DOMAIN oPlayers.at = {"u1", "u2"}
    /\ DOMAIN oOwner = {"e1", "e3"}
    /\ oOwner["e1"] # oOwner["e3"]
    /\ "c3" \in ContainerListOf("u2")
    /\ \E c \in ContainerListOf("u1") :
          \E i \in 1..Len(SlotListOf(oWorld, c)) : SlotListOf(oWorld, c)[i] = Sentinel

(***************************************************************************)
(* get_base_assignments: specification and claims                          *)
(***************************************************************************)
AsgInit ==
    /\ aWorld \in AsgWorlds
    /\ aResult = <<>>
    /\ aDone = FALSE

\* one call get_base_assignments(world_data)
CallGetBaseAssignments ==
    /\ ~aDone
    /\ aDone' = TRUE
    /\ aResult' = GetBaseAssignments(aWorld)
    /\ UNCHANGED aWorld
    /\ UNCHANGED <<fieldVars, collVars, statVars, ownVars, namedVars, loadVars, palVars, trustVars, debounceVars, guildVars, watchVars>>

InitAsg == AsgInit /\ FieldIdle /\ CollIdle /\ StatIdle /\ OwnIdle /\ NamedIdle /\ LoadIdle /\ PalIdle /\ TrustIdle /\ DebounceIdle /\ GuildIdle /\ WatchIdle

AsgNext == CallGetBaseAssignments

SpecAsg == InitAsg /\ [][AsgNext]_vars

\* the worker-container id a base ends up with: that of its last entry carrying one
WorkerContainerOf(world, b) ==
    LET idx == {i \in 1..Len(world.bases) :
                  world.bases[i].id = b /\ world.bases[i].container # ""}
    IN  IF idx = {} THEN ""
        ELSE world.bases[CHOOSE i \in idx : \A j \in idx : j <= i].container

\* C10: an instance id is a key of the assignments iff some character entry with
\* that id is not flagged as a player and its container reference is the
\* worker-container id of some base; the base assigned has that worker-container
\* id, and a character whose reference matches no base has no assignment.
C10_AssignmentIndex ==
    aDone =>
        /\ DOMAIN aResult =
              {aWorld.chars[i].id : i \in
                 {j \in 1..Len(aWorld.chars) :
                    /\ ~aWorld.chars[j].isPlayer
                    /\ aWorld.chars[j].id # "" /\ aWorld.chars[j].ref # ""
                    /\ \E b \in BaseIds :
                          WorkerContainerOf(aWorld, b) = aWorld.chars[j].ref}}
        /\ \A id \in DOMAIN aResult :
              \E j \in 1..Len(aWorld.chars) :
                 /\ aWorld.chars[j].id = id /\ ~aWorld.chars[j].isPlayer
                 /\ WorkerContainerOf(aWorld, aResult[id].base_id) = aWorld.chars[j].ref

\* C10 witness: one character assigned to a base, another left unassigned because
\* its reference is no base's worker container
C10_Witness ==
    /\ aDone
    /\ Len(aWorld.chars) = 2 /\ Len(aWorld.bases) = 2
    /\ ~aWorld.chars[1].isPlayer /\ ~aWorld.chars[2].isPlayer
    /\ aWorld.chars[2].ref = "c9" /\ aWorld.chars[2].id = "e2"
    /\ DOMAIN aResult = {"e1"}
    /\ aResult["e1"].base_id = "b2"

(***************************************************************************)
(* get_base_assignments: base naming                                       *)
(***************************************************************************)
\* the ids of the bases of the world
BaseIdsOf(world) == {world.bases[i].id : i \in 1..Len(world.bases)} \ {""}

\* the position of the first entry of base b
FirstEntryOf(world, b) ==
    CHOOSE i \in 1..Len(world.bases) :
        /\ world.bases[i].id = b
        /\ \A j \in 1..Len(world.bases) : world.bases[j].id = b => i <= j

\* the position of the first entry of base b that carries a worker container
FirstContainerEntryOf(world, b) ==
    CHOOSE i \in 1..Len(world.bases) :
        /\ world.bases[i].id = b /\ world.bases[i].container # ""
        /\ \A j \in 1..Len(world.bases) :
              world.bases[j].id = b /\ world.bases[j].container # "" => i <= j

\* the last entry of base b that carries RawData, 0 when there is none
LastRawEntryOf(world, b) ==
    LET idx == {i \in 1..Len(world.bases) : world.bases[i].id = b /\ world.bases[i].hasRaw}
    IN  IF idx = {} THEN 0 ELSE CHOOSE i \in idx : \A j \in idx : j <= i

\* the guild a base belongs to: that of its last entry carrying one
GuildOf(world, b) ==
    LET idx == {i \in 1..Len(world.bases) :
                  /\ world.bases[i].id = b /\ world.bases[i].hasRaw
                  /\ world.bases[i].guild # ""}
    IN  IF idx = {} THEN ""
        ELSE world.bases[CHOOSE i \in idx : \A j \in idx : j <= i].guild

\* the stored name of base b is the template name, empty or missing
HasPlaceholderName(world, b) ==
    \/ LastRawEntryOf(world, b) = 0
    \/ world.bases[LastRawEntryOf(world, b)].name \in {TemplateName, EmptyName}

\* the bases of guild g
SiblingsOf(world, g) == {b \in BaseIdsOf(world) : GuildOf(world, b) = g}

\* the bases of guild g that have a worker container
RegisteredSiblingsOf(world, g) ==
    {b \in SiblingsOf(world, g) : WorkerContainerOf(world, b) # ""}

\* the 1-based position of base b among the bases of its guild, in encounter order
PositionInGuild(world, b) ==
    Cardinality({s \in SiblingsOf(world, GuildOf(world, b)) :
                   FirstEntryOf(world, s) <= FirstEntryOf(world, b)})

\* the 1-based position of base b among the bases of its guild that have a worker
\* container, in the order their worker containers are first met
PositionAmongRegistered(world, b) ==
    Cardinality({s \in RegisteredSiblingsOf(world, GuildOf(world, b)) :
                   FirstContainerEntryOf(world, s) <= FirstContainerEntryOf(world, b)})

\* every base of the guild of b carries a placeholder, empty or missing name
AllPlaceholders(world, b) ==
    /\ GuildOf(world, b) # ""
    /\ \A s \in SiblingsOf(world, GuildOf(world, b)) : HasPlaceholderName(world, s)

\* C11 as stated: in a guild whose bases all carry a placeholder or empty name,
\* the k-th base of the guild in encounter order is named "Base k"
C11_KthBaseOfGuild ==
    aDone =>
        \A id \in DOMAIN aResult :
            AllPlaceholders(aWorld, aResult[id].base_id)
            => aResult[id].base_name
                 = <<"Base ", ToString(PositionInGuild(aWorld, aResult[id].base_id))>>

\* C11 amended: in a guild whose bases all carry a placeholder or empty name, a
\* base is named "Base k" where k, starting at 1, is its position among the bases
\* of the guild that have a worker container, in the order those are first met
C11_KthRegisteredBase ==
    aDone =>
        \A id \in DOMAIN aResult :
            AllPlaceholders(aWorld, aResult[id].base_id)
            => aResult[id].base_name
                 = <<"Base ",
                     ToString(PositionAmongRegistered(aWorld, aResult[id].base_id))>>

\* C11 witness: two sibling bases with placeholder names, each with a worker
\* assigned, named "Base 1" and "Base 2" in encounter order
C11_Witness ==
    /\ aDone
    /\ Len(aWorld.bases) = 2
    /\ aWorld.bases[1].id = "b1" /\ aWorld.bases[2].id = "b2"
    /\ AllPlaceholders(aWorld, "b1") /\ GuildOf(aWorld, "b2") = GuildOf(aWorld, "b1")
    /\ \E x, y \in DOMAIN aResult :
          /\ aResult[x].base_id = "b1" /\ aResult[x].base_name = <<"Base ", "1">>
          /\ aResult[y].base_id = "b2" /\ aResult[y].base_name = <<"Base ", "2">>

\* the stored name of base b is genuine: present, not empty, not the template name
HasGenuineName(world, b) ==
    /\ LastRawEntryOf(world, b) # 0
    /\ world.bases[LastRawEntryOf(world, b)].name \notin {TemplateName, EmptyName}

\* C12: a base whose stored name is genuine is never renumbered: the base_name
\* of every assignment to it is exactly the stored name, whatever the name is
\* and whatever siblings its guild has
C12_GenuineNameKept ==
    aDone =>
        \A id \in DOMAIN aResult :
            HasGenuineName(aWorld, aResult[id].base_id)
            => aResult[id].base_name
                 = aWorld.bases[LastRawEntryOf(aWorld, aResult[id].base_id)].name

(***************************************************************************)
(* SchemaLoader accessors by name: specification and claims                *)
(***************************************************************************)
NamedInit ==
    /\ nSchema \in SchemaDocs
    /\ nData \in NamedData
    /\ nCall = <<"none", "">>
    /\ nResult = NotRun

\* schema.extract_field(data, name)
CallFieldByName ==
    /\ nCall[1] = "none"
    /\ \E name \in Names :
          /\ nCall' = <<"extract_field", name>>
          /\ nResult' = ExtractFieldByName(nSchema, nData, name)
    /\ UNCHANGED <<nSchema, nData>>
    /\ UNCHANGED <<fieldVars, collVars, statVars, asgVars, ownVars, loadVars, palVars, trustVars, debounceVars, guildVars, watchVars>>

\* schema.extract_list(data, name)
CallListByName ==
    /\ nCall[1] = "none"
    /\ \E name \in Names :
          /\ nCall' = <<"extract_list", name>>
          /\ nResult' = ExtractListByName(nSchema, nData, name)
    /\ UNCHANGED <<nSchema, nData>>
    /\ UNCHANGED <<fieldVars, collVars, statVars, asgVars, ownVars, loadVars, palVars, trustVars, debounceVars, guildVars, watchVars>>

\* schema.extract_collection(data, name)
CallCollectionByName ==
    /\ nCall[1] = "none"
    /\ \E name \in Names :
          /\ nCall' = <<"extract_collection", name>>
          /\ nResult' = ExtractCollectionByName(nSchema, nData, name)
    /\ UNCHANGED <<nSchema, nData>>
    /\ UNCHANGED <<fieldVars, collVars, statVars, asgVars, ownVars, loadVars, palVars, trustVars, debounceVars, guildVars, watchVars>>

InitNamed == NamedInit /\ FieldIdle /\ CollIdle /\ StatIdle /\ AsgIdle /\ OwnIdle /\ LoadIdle /\ PalIdle /\ TrustIdle /\ DebounceIdle /\ GuildIdle /\ WatchIdle

NamedNext == CallFieldByName \/ CallListByName \/ CallCollectionByName

SpecNamed == InitNamed /\ [][NamedNext]_vars

\* the name of the call is declared in the section its accessor reads
IsDeclared(doc, call) ==
    CASE call[1] = "extract_field" -> call[2] \in DOMAIN doc.fields
      [] call[1] = "extract_list" -> call[2] \in DOMAIN doc.lists
      [] call[1] = "extract_collection" -> call[2] \in DOMAIN doc.collections
      [] OTHER -> TRUE

\* C13: an accessor called with a name its schema section does not declare fails
\* with SchemaError:UnknownField (extract_field) and returns no ordinary result
\* (extract_list, extract_collection)
C13_UnknownNameFails ==
    (nCall[1] # "none" /\ ~IsDeclared(nSchema, nCall))
        => /\ IsRaise(nResult)
           /\ nCall[1] = "extract_field" => nResult = Raise("SchemaError:UnknownField")

(***************************************************************************)
(* SaveFileParser.load / reload: specification and claims                  *)
(***************************************************************************)
\* SaveFileParser.load() reading snapshot snap (parser/__init__.py 37-52 with
\* GvasHandler.load, gvas_handler.py 29-63)
LoadFrom(snap) ==
    /\ lCalls < MaxLoads
    /\ lCalls' = lCalls + 1
    /\ IF snap.level = "missing"
       THEN \* line 35-37: return False, nothing else assigned
            /\ lReturn' = "false"
            /\ UNCHANGED <<gWorldData, gWorldName, gLoaded, pPlayers, pNames, pOwner, lSnap>>
       ELSE IF snap.level = "unreadable"
       THEN \* line 60-63: the exception handler
            /\ lReturn' = "false"
            /\ gLoaded' = FALSE
            /\ UNCHANGED <<gWorldData, gWorldName, pPlayers, pNames, pOwner, lSnap>>
       ELSE IF snap.level = "damaged"
       THEN \* GvasHandler.load succeeds; build_player_mapping raises in
            \* get_character_data (characters.py 41) and load() passes it on
            /\ lReturn' = "raise"
            /\ gWorldData' = <<snap.world>>
            /\ gWorldName' = LoadWorldName(gWorldName, snap)
            /\ gLoaded' = TRUE
            /\ UNCHANGED <<pPlayers, pNames, pOwner, lSnap>>
       ELSE /\ lReturn' = "true"
            /\ gWorldData' = <<snap.world>>
            /\ gWorldName' = LoadWorldName(gWorldName, snap)
            /\ gLoaded' = TRUE
            /\ pPlayers' = BuildPlayerMapping(snap.world)
            /\ pNames' = PlayerNames(BuildPlayerMapping(snap.world))
            /\ pOwner' = BuildPalOwnership(snap.world, BuildPlayerMapping(snap.world))
            /\ lSnap' = <<snap>>
    /\ UNCHANGED <<fieldVars, collVars, statVars, asgVars, ownVars, namedVars, palVars, trustVars, debounceVars, guildVars, watchVars>>

\* parser.load() at startup
Load == lCalls = 0 /\ \E snap \in Snapshots : LoadFrom(snap)

\* parser.reload() afterwards: return self.load()
Reload == lCalls > 0 /\ \E snap \in Snapshots : LoadFrom(snap)

InitLoad ==
    LoadIdle /\ FieldIdle /\ CollIdle /\ StatIdle /\ AsgIdle /\ OwnIdle /\ NamedIdle /\ PalIdle /\ TrustIdle /\ DebounceIdle /\ GuildIdle /\ WatchIdle

LoadNext == Load \/ Reload

SpecLoad == InitLoad /\ [][LoadNext]_vars

\* C14: once a load or reload has succeeded, what the parser reports is a
\* function of the snapshot it read most recently: the world, the player,
\* player-name and ownership indexes, and the world name of the save info
C14_ReloadFromScratch ==
    lReturn = "true" =>
        /\ gLoaded
        /\ gWorldData = <<lSnap[1].world>>
        /\ pPlayers = BuildPlayerMapping(lSnap[1].world)
        /\ pNames = PlayerNames(BuildPlayerMapping(lSnap[1].world))
        /\ pOwner = BuildPalOwnership(lSnap[1].world, BuildPlayerMapping(lSnap[1].world))
        /\ ReportedWorldName(gWorldName) = ReportedWorldName(lSnap[1].meta)

(***************************************************************************)
(* build_player_mapping: one entry per player fragment                     *)
(***************************************************************************)
\* fragment i shares neither its player identifier nor its back-reference with
\* another fragment of the pass
AloneInPass(world, i) ==
    \A j \in 1..Len(world.fragments) :
        j # i =>
          /\ PlayerUidOf(world.fragments[j]) # PlayerUidOf(world.fragments[i])
          /\ \/ world.fragments[j].individual = ""
             \/ world.fragments[j].individual # world.fragments[i].individual

\* the back-reference of fragment f is missing, or matches no player character
Unmatched(world, f) ==
    f.individual = "" \/ f.individual \notin DOMAIN InstanceToName(world)

\* xs is a prefix of ys
IsPrefix(xs, ys) == Len(xs) <= Len(ys) /\ SubSeq(ys, 1, Len(xs)) = xs

\* C15: after build_player_mapping every player fragment has an entry under
\* its player identifier whose container list starts with the container ids the
\* fragment declares, and a fragment whose back-reference is missing or matches
\* no player character has the display name "Player_" followed by the short id
C15_EveryFragmentRecorded ==
    oPc # "start" =>
        \A i \in 1..Len(oWorld.fragments) :
            AloneInPass(oWorld, i) =>
                LET f == oWorld.fragments[i]
                    uid == PlayerUidOf(f)
                IN  /\ uid \in DOMAIN oPlayers.at
                    /\ IsPrefix(ContainerIdsOf(f), oPlayers.at[uid].containers)
                    /\ Unmatched(oWorld, f) => oPlayers.at[uid].name = FallbackName(uid)

(***************************************************************************)
(* build_pals: specification and claims                                    *)
(***************************************************************************)
PalInit ==
    /\ bCharInfo \in CharInfos
    /\ bSpecies \in SUBSET SpeciesIds
    /\ bPal = NotRun

\* pals = build_pals(world_data, data_loader, pal_to_owner), one character
CallBuildPals ==
    /\ bPal = NotRun
    /\ bPal' = BuildPal(bCharInfo, bSpecies)
    /\ UNCHANGED <<bCharInfo, bSpecies>>
    /\ UNCHANGED <<fieldVars, collVars, statVars, asgVars, ownVars, namedVars, loadVars, trustVars, debounceVars, guildVars, watchVars>>

InitPal ==
    PalInit /\ FieldIdle /\ CollIdle /\ StatIdle /\ AsgIdle /\ OwnIdle /\ NamedIdle /\ LoadIdle /\ TrustIdle /\ DebounceIdle /\ GuildIdle /\ WatchIdle

PalNext == CallBuildPals

SpecPal == InitPal /\ [][PalNext]_vars

\* C16: a character id that carries the boss marker in any casing resolves to
\* the species found by the first of three tiers that finds one: the exact id,
\* the id with the marker stripped, the stripped id compared without regard to
\* case against the known species ids; and to no species when all three fail
C16_ThreeTierLookup ==
    LET lower == [c \in {"A", "a", "n", "L", "B", "O", "S", "o", "s", "b", "_"} |->
                    CASE c = "A" -> "a" [] c = "L" -> "l" [] c = "B" -> "b"
                      [] c = "O" -> "o" [] c = "S" -> "s" [] OTHER -> c]
        Lower(s) == [i \in 1..Len(s) |-> lower[s[i]]]
        id == bPal.character_id
        marked == Len(id) > 5 /\ Lower(SubSeq(id, 1, 5)) = Lower(BOSS)
        stripped == SubSeq(id, 6, Len(id))
        folded == {k \in bSpecies : Lower(k) = Lower(stripped)}
    IN  bPal.kind = "pal" /\ marked =>
            IF id \in bSpecies THEN bPal.species = <<id>>
            ELSE IF stripped \in bSpecies THEN bPal.species = <<stripped>>
            ELSE IF folded # {} THEN \E k \in folded : bPal.species = <<k>>
            ELSE bPal.species = <<>>

\* C17: a NickName wrapped in any number of single-key "value" maps comes out
\* of build_pals as the innermost value: a pal is built and its nickname is
\* the fully unwrapped property, never a map
C17_NoWrapperLeft ==
    bPal # NotRun /\ HasKey(bCharInfo, "NickName") =>
        /\ bPal.kind = "pal"
        /\ bPal.nickname = Unwrap(bCharInfo.m["NickName"])
        /\ ~IsDict(bPal.nickname)

(***************************************************************************)
(* Claims about the path walk, the unwrap loop and the transform of        *)
(* extract_field                                                           *)
(***************************************************************************)
\* C18: on a map, extract_field starts from node[rootKey] when the field has a
\* root key and from the node itself otherwise, follows every key of the path
\* once and in order, and returns the unwrapped value found there, or the
\* default when a step is missing or lands on a non-map
C18_PathWalk ==
    fCall = "extract_field" /\ fSchema.post = "plain" /\ IsDict(fData) =>
        LET start == IF fSchema.hasRoot THEN DictGet(fData, fSchema.root) ELSE fData
            walked == IF IsNone(start) THEN NotRun ELSE WalkPath(start, fSchema.path)
        IN  fResult = IF walked = NotRun \/ IsNone(Unwrap(walked))
                      THEN fSchema.default
                      ELSE Unwrap(walked)

\* C19: a map whose single key is "value" around a value that is not a map is
\* replaced by that value, and a map that holds "value" together with another
\* key is no wrapper: extract_field returns it as it is
C19_UnwrapStopsAtNonWrapper ==
    fCall = "extract_field" /\ fSchema.post = "plain" =>
        LET reached == Navigate(fData, fSchema)
        IN  /\ IsDict(reached) /\ DOMAIN reached.m = {"value"}
                 /\ ~IsDict(reached.m["value"]) /\ ~IsNone(reached.m["value"])
               => fResult = reached.m["value"]
            /\ IsDict(reached) /\ HasKey(reached, "value")
                 /\ Cardinality(DOMAIN reached.m) > 1
               => fResult = reached

\* C20: for a field with a numeric transform, a resolved value the transform
\* cannot turn into a number (it is no finite number) makes extract_field
\* return the declared default, and nothing is raised
C20_TransformFailureGivesDefault ==
    fCall = "extract_field" /\ fSchema.post = "transform"
        /\ fUnwrapped # NotRun /\ fUnwrapped.kind \notin {"none", "num"}
      => fResult = fSchema.default

(***************************************************************************)
(* Claims about extract_list                                               *)
(***************************************************************************)
\* the list extract_list locates below data[list_name], NotRun when a step is missing
LocatedList(data, name, ls) ==
    IF ~IsDict(data) \/ IsNone(DictGet(data, name)) THEN NotRun
    ELSE WalkList(DictGet(data, name), ls.path)

\* C21 as stated: with an item-record schema the result has the length of the
\* located list and its i-th record is the projection of the i-th element;
\* without one the located list is returned unchanged
C21_EveryElementProjected ==
    nCall = <<"extract_list", DeclaredName>> =>
        LET ls == nSchema.lists[DeclaredName]
            located == LocatedList(nData, DeclaredName, ls)
        IN  located.kind = "list" =>
                IF ls.hasItems
                THEN /\ nResult.kind = "list"
                     /\ Len(nResult.items) = Len(located.items)
                     /\ \A i \in 1..Len(located.items) :
                           nResult.items[i] = ProjectItem(located.items[i], ls.items)
                ELSE nResult = located

\* C21 amended: with an item-record schema the result holds, in list order, the
\* projection of every element of the located list that is a map, the other
\* elements are left out; without one the located list is returned unchanged
C21_EveryMapElementProjected ==
    nCall = <<"extract_list", DeclaredName>> =>
        LET ls == nSchema.lists[DeclaredName]
            located == LocatedList(nData, DeclaredName, ls)
            maps == IF located.kind = "list" THEN SelectSeq(located.items, IsDict) ELSE <<>>
        IN  located.kind = "list" =>
                IF ls.hasItems
                THEN nResult = List([i \in 1..Len(maps) |-> ProjectItem(maps[i], ls.items)])
                ELSE nResult = located

\* C21 witness: a list of a scalar and a map read through an item-record schema
\* gives one record, the projection of the map
C21_Witness ==
    /\ nCall = <<"extract_list", DeclaredName>>
    /\ nSchema.lists[DeclaredName].hasItems
    /\ LocatedList(nData, DeclaredName, nSchema.lists[DeclaredName])
          = List(<<Num(5), Map([k \in {"a"} |-> Str(<<"E", "A">>)])>>)
    /\ nResult.kind = "list"
    /\ Len(nResult.items) = 1
    /\ nResult.items[1].m["id"] \in {Str(<<"A">>), Str(<<"E", "A">>)}

(***************************************************************************)
(* build_player_mapping: base worker containers                            *)
(***************************************************************************)
\* the mapping before the worker containers are added (relationships.py 49-59)
PlayersBeforeBases(world) ==
    LET saved == ExtractPlayerSaveData(OrdEmpty, world.fragments)
    IN  MapPlayers(OrdEmpty, saved, saved.order, InstanceToName(world))

\* the container ids player uid has gained behind those it had in `before`
GainedContainers(before, uid) ==
    LET after == oPlayers.at[uid].containers
    IN  {after[i] : i \in (Len(before.at[uid].containers) + 1)..Len(after)}

\* player uid is a member of guild g, a guild that has players
IsMember(guildToPlayers, uid, g) ==
    /\ g \in DOMAIN guildToPlayers
    /\ \E i \in 1..Len(guildToPlayers[g]) : guildToPlayers[g][i] = uid

\* C22: after build_player_mapping every player of the index has, in its
\* container list, the worker-container id of every base of every guild it is
\* a member of, and has gained no worker-container id of a base of a guild it
\* is not a member of
C22_WorkersExtendOwnership ==
    oPc # "start" =>
        LET bases == GetBaseData(OrdEmpty, oWorld.links.bases)
            before == PlayersBeforeBases(oWorld)
            members == GuildToPlayers(oWorld)
            ofMember(b, u) ==
                /\ bases.at[b].guild # ""
                /\ bases.at[b].container # ""
                /\ IsMember(members, u, bases.at[b].guild)
        IN  \A u \in DOMAIN oPlayers.at :
              /\ \A b \in DOMAIN bases.at :
                    ofMember(b, u) => bases.at[b].container \in ContainerListOf(u)
              /\ \A c \in GainedContainers(before, u) :
                    \E b \in DOMAIN bases.at : ofMember(b, u) /\ bases.at[b].container = c

\* C22 witness: u2 is a member of a guild whose base has worker container c1
\* and has gained it; u1, in the index too, is no member and has gained nothing
C22_Witness ==
    /\ oPc # "start"
    /\ DOMAIN oPlayers.at = {"u1", "u2"}
    /\ IsMember(GuildToPlayers(oWorld), "u2", "g1")
    /\ ~IsMember(GuildToPlayers(oWorld), "u1", "g1")
    /\ GainedContainers(PlayersBeforeBases(oWorld), "u2") = {"c1"}
    /\ GainedContainers(PlayersBeforeBases(oWorld), "u1") = {}

(***************************************************************************)
(* Claims about the stages of calculate_pal_stats                          *)
(***************************************************************************)
\* C23: for an alpha with trust level > 0 and a friendship_hp multiplier, at
\* rank 1 and without hp passives, hp is 500 + 5*level + floor(1.2*growth +
\* IV bonus of the unmultiplied growth) + floor((1.2*growth + 5*level) * trust
\* * friendship_hp / 100), where growth = level * scaling.hp * 0.5
C23_AlphaBeforeTrust ==
    (sOp # "none" /\ sIn.scaling.present /\ sIn.is_alpha /\ sIn.trust > 0
        /\ "friendship_hp" \in sIn.friendship.keys /\ sIn.rank = 1
        /\ PassiveSum(sIn.passives, {"MaxHP"}) = 0)
      => sOut.hp = 500 + 5 * sIn.level
                     + (1200 * sIn.level * sIn.scaling.hp
                          + 3 * sIn.level * sIn.scaling.hp * sIn.talents.hp) \div 2000
                     + ((12 * sIn.level * sIn.scaling.hp + 100 * sIn.level)
                          * sIn.trust * sIn.friendship.friendship_hp) \div 2000

\* C24: every stat is floor(prePassive * (1 + sum of percent / 100)) over the
\* self-targeting modifiers of its type, work speed from the baseline 70;
\* modifiers with another target are ignored, and the order of the modifiers
\* makes no difference
C24_PassiveOverlay ==
    /\ (sOp \notin {"none", "build"} /\ sIn.scaling.present)
          => /\ sOut.hp = (RankAdjust(HpEffectiveBase(sIn), sIn.rank)
                             * (100 + PassiveSum(sIn.passives, {"MaxHP"}))) \div 100
             /\ sOut.attack = (RankAdjust(AttackEffectiveBase(sIn), sIn.rank)
                                 * (100 + PassiveSum(sIn.passives, {"Attack"}))) \div 100
             /\ sOut.defense = (RankAdjust(DefenseEffectiveBase(sIn), sIn.rank)
                                  * (100 + PassiveSum(sIn.passives, {"Defense", "Defence"})))
                                   \div 100
             /\ sOut.work_speed
                  = (BaseWorkSpeed * (100 + PassiveSum(sIn.passives, {"WorkSpeed", "CraftSpeed"})))
                      \div 100
    /\ sOp = "order" => sOut = sPrev

(***************************************************************************)
(* Trust levels: DataLoader._load_trust_thresholds and                     *)
(* calculate_trust_level                                                   *)
(***************************************************************************)

MaxThresholds == 2

\* friendship.json: whether the file exists, and its entries in file order
File(entries) == [exists |-> TRUE, entries |-> entries]
NoFile == [exists |-> FALSE, entries |-> <<>>]

\* a key of friendship.json is kept as its stem and its ending
RankKeys ==
    { <<"Friendship_Rank_", "1">>, <<"Friendship_Rank_", "2">>, <<"Friendship_Rank_", "3">>,
      <<"Friendship_Rank_", "Minus1">>, <<"Other_", "1">> }

\* value.get("rank", 0) and value.get("required_point", 0) of an entry
ThresholdEntries == [key : RankKeys, rank : {-1, 1, 2}, required : {0, 10, 20}]

\* a JSON object: its keys are distinct
TrustFiles ==
    {NoFile} \cup
    { File(f) : f \in { g \in SeqsUpTo(ThresholdEntries, MaxThresholds) :
                           \A i, j \in 1..Len(g) : g[i].key = g[j].key => i = j } }

\* FriendshipPoint of the save data, None when the pal carries none
FriendshipPoints == {None} \cup {Num(n) : n \in {0, 5, 10, 15, 20, 25}}

\* key.startswith("Friendship_Rank_") and the two excluded endings
IsRankKey(key) ==
    /\ key[1] = "Friendship_Rank_"
    /\ key[Len(key)] \notin {"Minus1", "Minus2"}

\* list.sort(key=lambda x: x[0]) is stable: a pair goes after the pairs whose
\* threshold is not greater
RECURSIVE InsertByThreshold(_, _)
InsertByThreshold(sorted, pair) ==
    IF sorted = <<>> THEN <<pair>>
    ELSE IF sorted[Len(sorted)][1] <= pair[1] THEN Append(sorted, pair)
    ELSE Append(InsertByThreshold(SubSeq(sorted, 1, Len(sorted) - 1), pair),
                sorted[Len(sorted)])

RECURSIVE SortByThreshold(_)
SortByThreshold(pairs) ==
    IF pairs = <<>> THEN <<>>
    ELSE InsertByThreshold(SortByThreshold(SubSeq(pairs, 1, Len(pairs) - 1)),
                           pairs[Len(pairs)])

\* the (required, rank) pairs of the entries that pass the filter, in file order
RECURSIVE ThresholdPairs(_)
ThresholdPairs(file) ==
    IF file = <<>> THEN <<>>
    ELSE LET e == Head(file)
         IN  (IF IsRankKey(e.key) /\ e.rank >= 0 /\ e.required >= 0
              THEN << <<e.required, e.rank>> >> ELSE <<>>)
             \o ThresholdPairs(Tail(file))

\* mutant of TrustLevelFrom: the table is scanned from its first pair
RECURSIVE TrustLevelFirstMatch(_, _, _)
TrustLevelFirstMatch(points, table, i) ==
    IF i = 0 \/ table = <<>> THEN 0
    ELSE IF points >= Head(table)[1] THEN Head(table)[2]
    ELSE TrustLevelFirstMatch(points, Tail(table), i - 1)

\* the loop over reversed(trust_thresholds), from index i downwards
RECURSIVE TrustLevelFrom(_, _, _)
TrustLevelFrom(points, table, i) ==
    IF i = 0 THEN 0
    ELSE IF points >= table[i][1] THEN table[i][2]
    ELSE TrustLevelFrom(points, table, i - 1)

calculate_trust_level(points, table) ==
    IF IsNone(points) \/ table = <<>> THEN 0
    ELSE TrustLevelFrom(points.n, table, Len(table))

TrustInit ==
    /\ tFile \in TrustFiles
    /\ tTable = <<>>
    /\ tPoints = None
    /\ tOut = 0
    /\ tPrev = 0
    /\ tOp = "none"

\* DataLoader._load_trust_thresholds; without the file the table stays empty
LoadTrustThresholds ==
    /\ tOp = "none"
    /\ tTable' = IF tFile.exists THEN SortByThreshold(ThresholdPairs(tFile.entries)) ELSE tTable
    /\ tOp' = "loaded"
    /\ UNCHANGED <<tFile, tPoints, tOut, tPrev>>
    /\ UNCHANGED <<fieldVars, collVars, statVars, asgVars, ownVars, namedVars, loadVars, palVars, debounceVars, guildVars, watchVars>>

\* calculate_trust_level(friendship_points, data_loader.trust_thresholds)
CallTrustLevel ==
    /\ tOp = "loaded"
    /\ \E p \in FriendshipPoints :
          /\ tPoints' = p
          /\ tOut' = calculate_trust_level(p, tTable)
    /\ tOp' = "level"
    /\ UNCHANGED <<tFile, tTable, tPrev>>
    /\ UNCHANGED <<fieldVars, collVars, statVars, asgVars, ownVars, namedVars, loadVars, palVars, debounceVars, guildVars, watchVars>>

\* a second call for an entity with more friendship points
CallWithMorePoints ==
    /\ tOp = "level"
    /\ ~IsNone(tPoints)
    /\ \E p \in FriendshipPoints \ {None} :
          /\ p.n > tPoints.n
          /\ tPoints' = p
          /\ tOut' = calculate_trust_level(p, tTable)
    /\ tOp' = "more"
    /\ tPrev' = tOut
    /\ UNCHANGED <<tFile, tTable>>
    /\ UNCHANGED <<fieldVars, collVars, statVars, asgVars, ownVars, namedVars, loadVars, palVars, debounceVars, guildVars, watchVars>>

InitTrust ==
    TrustInit /\ FieldIdle /\ CollIdle /\ StatIdle /\ AsgIdle /\ OwnIdle /\ NamedIdle /\ LoadIdle /\ PalIdle /\ DebounceIdle /\ DebounceIdle /\ GuildIdle /\ WatchIdle

TrustNext == LoadTrustThresholds \/ CallTrustLevel \/ CallWithMorePoints

SpecTrust == InitTrust /\ [][TrustNext]_vars

\* the indexes of the pairs whose threshold the points reach
Qualifying(table, points) ==
    IF IsNone(points) THEN {} ELSE {i \in 1..Len(table) : table[i][1] <= points.n}

LevelsRiseWithThresholds(table) ==
    \A i, j \in 1..Len(table) : table[i][1] < table[j][1] => table[i][2] <= table[j][2]

\* C25: on the loaded table, sorted ascending by required points, the level
\* returned is the level of a greatest threshold that the friendship points
\* reach, and 0 when no threshold is reached, the table is empty or the points
\* are absent; with levels that rise with the thresholds, more points never
\* give a lower level
C25_TrustLevelLookup ==
    /\ tOp \in {"level", "more"} =>
          LET q == Qualifying(tTable, tPoints)
          IN  /\ \A i \in 1..(Len(tTable) - 1) : tTable[i][1] <= tTable[i + 1][1]
              /\ q = {} => tOut = 0
              /\ q # {} =>
                    \E i \in q : /\ tOut = tTable[i][2]
                                 /\ \A j \in q : tTable[j][1] <= tTable[i][1]
    /\ (tOp = "more" /\ LevelsRiseWithThresholds(tTable)) => tOut >= tPrev

C25_Witness ==
    /\ tOp = "more"
    /\ Len(tTable) = 2
    /\ tTable[1][1] < tTable[2][1]
    /\ LevelsRiseWithThresholds(tTable)
    /\ tPrev = tTable[1][2]
    /\ tOut = tTable[2][2]
    /\ tOut > tPrev

(***************************************************************************)
(* The debounced reload: SaveFileHandler.on_modified and                   *)
(* _debounced_callback, the handler created by SaveWatcher.start           *)
(***************************************************************************)

TicksPerSecond == 2
MaxEvents == 3

\* _debounce_delay = 1.0 and the startup period of 3.0 seconds
DebounceSeconds == 1
StartupSeconds == 3

DebounceDelay == DebounceSeconds * TicksPerSecond
StartupPeriod == StartupSeconds * TicksPerSecond

\* the clock stops here; no event arrives too late for its callback to run
Horizon == StartupPeriod + (MaxEvents + 1) * DebounceDelay

\* event.is_directory, Path(event.src_path).name and .parent.name
ModifiedEvents ==
    { [is_directory |-> FALSE, name |-> "Level.sav", parent |-> "World"],
      [is_directory |-> FALSE, name |-> "0001.sav", parent |-> "Players"],
      [is_directory |-> TRUE, name |-> "Players", parent |-> "World"],
      [is_directory |-> FALSE, name |-> "LevelMeta.sav", parent |-> "World"] }

\* mutant of WithoutCancelled: the task in flight is left alone
KeepCancelled(pending, task) == pending

\* lines 40-41: a task that is not done is cancelled and never reaches the callback
WithoutCancelled(pending, task) ==
    IF task.state = "pending" THEN {t \in pending : t.id # task.id} ELSE pending

\* on_modified up to the scheduling: does this event schedule a debounce task
Schedules(event, now, start) ==
    /\ ~event.is_directory
    /\ ~(now - start < StartupPeriod)
    /\ (event.name = "Level.sav" \/ event.parent = "Players")

\* the events the debounce is about: on Level.sav or a file of a Players
\* directory, after the startup period
InBurst(event, now) ==
    /\ ~event.is_directory
    /\ (event.name = "Level.sav" \/ event.parent = "Players")
    /\ now >= StartupPeriod

\* SaveWatcher.start has just run: the handler exists, its start time is taken
DebounceInit ==
    /\ dNow = 0
    /\ dStart = 0
    /\ dTask = [id |-> 0, state |-> "none"]
    /\ dPending = {}
    /\ dSched = 0
    /\ dRuns = 0
    /\ dRanAt = 0
    /\ dEvents = 0
    /\ dBurst = 0
    /\ dLast = 0
    /\ dGapsOk = TRUE

\* time passes; a task whose sleep is over runs before the clock moves on
Tick ==
    /\ dNow < Horizon
    /\ \A t \in dPending : t.due > dNow
    /\ dNow' = dNow + 1
    /\ UNCHANGED <<dStart, dTask, dPending, dSched, dRuns, dRanAt, dEvents, dBurst, dLast,
                   dGapsOk>>
    /\ UNCHANGED <<fieldVars, collVars, statVars, asgVars, ownVars, namedVars, loadVars, palVars, trustVars, guildVars, watchVars>>

\* the observer delivers a modification event to on_modified
OnModified ==
    /\ dEvents < MaxEvents
    /\ dNow + DebounceDelay <= Horizon
    /\ \E event \in ModifiedEvents :
          /\ IF Schedules(event, dNow, dStart)
             THEN /\ dTask' = [id |-> dSched + 1, state |-> "pending"]
                  /\ dPending' = WithoutCancelled(dPending, dTask)
                                   \cup {[id |-> dSched + 1, due |-> dNow + DebounceDelay]}
                  /\ dSched' = dSched + 1
             ELSE UNCHANGED <<dTask, dPending, dSched>>
          /\ IF InBurst(event, dNow)
             THEN /\ dBurst' = dBurst + 1
                  /\ dLast' = dNow
                  /\ dGapsOk' = (dGapsOk /\ (dBurst = 0 \/ dNow - dLast < DebounceDelay))
             ELSE UNCHANGED <<dBurst, dLast, dGapsOk>>
    /\ dEvents' = dEvents + 1
    /\ UNCHANGED <<dNow, dStart, dRuns, dRanAt>>
    /\ UNCHANGED <<fieldVars, collVars, statVars, asgVars, ownVars, namedVars, loadVars, palVars, trustVars, guildVars, watchVars>>

\* _debounced_callback after its sleep: the callback runs
RunDebounced ==
    /\ \E t \in dPending :
          /\ t.due <= dNow
          /\ dPending' = dPending \ {t}
          /\ dTask' = IF dTask.id = t.id THEN [dTask EXCEPT !.state = "done"] ELSE dTask
    /\ dRuns' = dRuns + 1
    /\ dRanAt' = dNow
    /\ UNCHANGED <<dNow, dStart, dSched, dEvents, dBurst, dLast, dGapsOk>>
    /\ UNCHANGED <<fieldVars, collVars, statVars, asgVars, ownVars, namedVars, loadVars, palVars, trustVars, guildVars, watchVars>>

InitDebounce ==
    DebounceInit /\ FieldIdle /\ CollIdle /\ StatIdle /\ AsgIdle /\ OwnIdle /\ NamedIdle /\ LoadIdle /\ PalIdle /\ TrustIdle /\ GuildIdle /\ WatchIdle

DebounceNext == Tick \/ OnModified \/ RunDebounced

SpecDebounce == InitDebounce /\ [][DebounceNext]_vars

\* the event loop keeps running and time keeps passing
SpecDebounceFair == SpecDebounce /\ WF_vars(Tick) /\ WF_vars(RunDebounced)

\* C26: after a burst of modification events on Level.sav or a Players file,
\* past the startup period and each less than the debounce delay after the one
\* before, the callback runs exactly once, a full delay after the last event;
\* events on directories, on other files or during startup schedule nothing
C26_DebouncedReload ==
    /\ [](dSched = dBurst)
    /\ []((dBurst > 0 /\ dGapsOk)
            => /\ dRuns <= 1
               /\ dRuns = 1 => dRanAt >= dLast + DebounceDelay
               /\ dNow > dLast + DebounceDelay => dRuns = 1)
    /\ ((dBurst > 0 /\ dGapsOk) ~> (dRuns = 1 \/ ~dGapsOk))

C26_Witness ==
    /\ dBurst = MaxEvents - 1
    /\ dEvents = MaxEvents
    /\ dGapsOk
    /\ dLast > StartupPeriod
    /\ dRuns = 1
    /\ dRanAt = dLast + DebounceDelay

\* C27: whenever the parser reports loaded, the player-to-container index and
\* the entity-to-owner index are the ones built from the world data it holds;
\* after a load or reload that returned False or raised, what is visible is
\* nothing (not loaded) or the whole state of the latest successful load
C27_SnapshotConsistency ==
    /\ gLoaded =>
          /\ gWorldData # <<>>
          /\ pPlayers = BuildPlayerMapping(gWorldData[1])
          /\ pNames = PlayerNames(BuildPlayerMapping(gWorldData[1]))
          /\ pOwner = BuildPalOwnership(gWorldData[1], BuildPlayerMapping(gWorldData[1]))
    /\ (lReturn \in {"false", "raise"} /\ gLoaded) =>
          /\ lSnap # <<>>
          /\ gWorldData = <<lSnap[1].world>>

(***************************************************************************)
(* build_guilds (parser/builders/guilds.py) next to get_base_assignments:  *)
(* the two places that name the bases of a guild                           *)
(***************************************************************************)

\* every worker container holds one non-player character
GuildWorlds ==
    [bases : SeqsUpTo(BaseEntries, MaxBases),
     chars : {<<CharEntry("e1", FALSE, "c1"), CharEntry("e2", FALSE, "c2")>>}]

GuildInit ==
    /\ bWorld \in GuildWorlds
    /\ bAssigned = NotRun
    /\ bLocations = NotRun

\* get_base_assignments(world_data)
CallAssignments ==
    /\ bAssigned = NotRun
    /\ bAssigned' = Dict(GetBaseAssignments(bWorld))
    /\ UNCHANGED <<bWorld, bLocations>>
    /\ UNCHANGED <<fieldVars, collVars, statVars, asgVars, ownVars, namedVars, loadVars, palVars, trustVars, debounceVars, watchVars>>

\* build_guilds(get_guild_data(world_data), get_base_data(world_data))
CallBuildGuilds ==
    /\ bLocations = NotRun
    /\ bLocations' = Dict(BaseLocationNames(bWorld))
    /\ UNCHANGED <<bWorld, bAssigned>>
    /\ UNCHANGED <<fieldVars, collVars, statVars, asgVars, ownVars, namedVars, loadVars, palVars, trustVars, debounceVars, watchVars>>

InitGuild ==
    GuildInit /\ FieldIdle /\ CollIdle /\ StatIdle /\ AsgIdle /\ OwnIdle /\ NamedIdle /\ LoadIdle /\ PalIdle /\ TrustIdle /\ DebounceIdle /\ WatchIdle

GuildNext == CallAssignments \/ CallBuildGuilds

SpecGuild == InitGuild /\ [][GuildNext]_vars

\* C28: for every base that has a guild and a worker container, the base_name
\* of its entry in the guild's base_locations equals the base_name of the
\* entities the assignment index assigns to that base
C28_BaseNamesAgree ==
    (bAssigned # NotRun /\ bLocations # NotRun) =>
        \A e \in DOMAIN bAssigned.d :
            bAssigned.d[e].guild_id # "" =>
                /\ bAssigned.d[e].base_id \in DOMAIN bLocations.d
                /\ bLocations.d[bAssigned.d[e].base_id] = bAssigned.d[e].base_name

(***************************************************************************)
(* The watcher endpoints of main.py: lifespan, /api/watch/start and        *)
(* /api/watch/stop, over SaveWatcher.start and stop (watcher.py).  The     *)
(* handlers hold no await, so each request runs as one step.               *)
(***************************************************************************)

MaxCalls == 4

NoWatcher == [kind |-> "none"]

\* a SaveWatcher; observer is the number of its Observer, 0 for None
Watcher(observer) == [kind |-> "watcher", observer |-> observer]

Response(call, response) == [call |-> call, response |-> response]

WatchState == [watcher |-> wWatcher, active |-> wActive, observers |-> wObservers]

\* mutant of StopWatcher: the observer is forgotten without being stopped
StopWatcherLeaving(w, observers) == observers

\* SaveWatcher.stop (watcher.py 85-92): the observer threads left running
StopWatcher(w, observers) ==
    IF w.kind = "watcher" /\ w.observer # 0 THEN observers \ {w.observer} ELSE observers

\* SaveWatcher(...) followed by start() (watcher.py 67-83), and watch_active
\* set when start() returns True
StartNewWatcher(observers) ==
    IF wMount
    THEN /\ wWatcher' = Watcher(wMade + 1)
         /\ wObservers' = observers \cup {wMade + 1}
         /\ wMade' = wMade + 1
         /\ wActive' = TRUE
    ELSE /\ wWatcher' = Watcher(0)
         /\ wObservers' = observers
         /\ UNCHANGED <<wMade, wActive>>

WatchInit ==
    /\ wAllowed \in BOOLEAN
    /\ wMount \in BOOLEAN
    /\ wPhase = "boot"
    /\ wWatcher = NoWatcher
    /\ wActive = FALSE
    /\ wObservers = {}
    /\ wMade = 0
    /\ wCalls = 0
    /\ wLast = Response("none", "none")
    /\ wBefore = [watcher |-> NoWatcher, active |-> FALSE, observers |-> {}]

\* lifespan up to the yield (main.py 51-73)
Startup ==
    /\ wPhase = "boot"
    /\ wPhase' = "serving"
    /\ IF wAllowed THEN StartNewWatcher(wObservers)
       ELSE UNCHANGED <<wWatcher, wObservers, wMade, wActive>>
    /\ UNCHANGED <<wAllowed, wMount, wCalls, wLast, wBefore>>
    /\ UNCHANGED <<fieldVars, collVars, statVars, asgVars, ownVars, namedVars, loadVars, palVars, trustVars, debounceVars, guildVars>>

\* the save directory is mounted or goes away
MountChanges ==
    /\ wPhase = "serving"
    /\ wMount' = ~wMount
    /\ UNCHANGED <<wAllowed, wPhase, wWatcher, wActive, wObservers, wMade, wCalls, wLast,
                   wBefore>>
    /\ UNCHANGED <<fieldVars, collVars, statVars, asgVars, ownVars, namedVars, loadVars, palVars, trustVars, debounceVars, guildVars>>

\* POST /api/watch/start (main.py 294-352)
StartWatch ==
    /\ wPhase = "serving"
    /\ wCalls < MaxCalls
    /\ wCalls' = wCalls + 1
    /\ wBefore' = WatchState
    /\ IF ~wAllowed
       THEN /\ wLast' = Response("start", "403")
            /\ UNCHANGED <<wWatcher, wActive, wObservers, wMade>>
       ELSE IF wActive /\ wWatcher # NoWatcher
       THEN /\ wLast' = Response("start", "already active")
            /\ UNCHANGED <<wWatcher, wActive, wObservers, wMade>>
       ELSE /\ StartNewWatcher(StopWatcher(wWatcher, wObservers))
            /\ wLast' = Response("start", IF wMount THEN "started" ELSE "500")
    /\ UNCHANGED <<wAllowed, wMount, wPhase>>
    /\ UNCHANGED <<fieldVars, collVars, statVars, asgVars, ownVars, namedVars, loadVars, palVars, trustVars, debounceVars, guildVars>>

\* POST /api/watch/stop (main.py 354-378)
StopWatch ==
    /\ wPhase = "serving"
    /\ wCalls < MaxCalls
    /\ wCalls' = wCalls + 1
    /\ wBefore' = WatchState
    /\ IF ~wActive \/ wWatcher = NoWatcher
       THEN /\ wLast' = Response("stop", "already stopped")
            /\ UNCHANGED <<wWatcher, wActive, wObservers>>
       ELSE /\ wObservers' = StopWatcher(wWatcher, wObservers)
            /\ wWatcher' = NoWatcher
            /\ wActive' = FALSE
            /\ wLast' = Response("stop", "stopped")
    /\ UNCHANGED <<wAllowed, wMount, wPhase, wMade>>
    /\ UNCHANGED <<fieldVars, collVars, statVars, asgVars, ownVars, namedVars, loadVars, palVars, trustVars, debounceVars, guildVars>>

\* lifespan after the yield (main.py 77-79): the observer is stopped, the
\* globals stay as they are
Shutdown ==
    /\ wPhase = "serving"
    /\ wPhase' = "down"
    /\ wObservers' = StopWatcher(wWatcher, wObservers)
    /\ wWatcher' = IF wWatcher = NoWatcher THEN NoWatcher ELSE Watcher(0)
    /\ UNCHANGED <<wAllowed, wMount, wActive, wMade, wCalls, wLast, wBefore>>
    /\ UNCHANGED <<fieldVars, collVars, statVars, asgVars, ownVars, namedVars, loadVars, palVars, trustVars, debounceVars, guildVars>>

InitWatch ==
    WatchInit /\ FieldIdle /\ CollIdle /\ StatIdle /\ AsgIdle /\ OwnIdle /\ NamedIdle /\ LoadIdle /\ PalIdle /\ TrustIdle /\ DebounceIdle /\ GuildIdle

WatchNext == Startup \/ MountChanges \/ StartWatch \/ StopWatch \/ Shutdown

SpecWatch == InitWatch /\ [][WatchNext]_vars

\* C29: over every sequence of start and stop requests at most one observer is
\* live; while requests are served watch_active is true only with a watcher
\* whose observer is running; a start while active creates no observer, a stop
\* while inactive and a start with ENABLE_AUTO_WATCH off change nothing, the
\* latter answered with a failure
C29_SingleWatcher ==
    /\ Cardinality(wObservers) <= 1
    /\ (wPhase = "serving" /\ wActive)
          => (wWatcher # NoWatcher /\ wWatcher.observer \in wObservers)
    /\ (wPhase = "serving" /\ wLast.call = "start" /\ wBefore.active)
          => WatchState = wBefore
    /\ (wPhase = "serving" /\ wLast.call = "stop" /\ ~wBefore.active)
          => WatchState = wBefore
    /\ (wPhase = "serving" /\ wLast.call = "start" /\ ~wAllowed)
          => (wLast.response = "403" /\ WatchState = wBefore)

C29_Witness ==
    /\ wPhase = "serving"
    /\ wCalls = MaxCalls
    /\ wMade = 2
    /\ wLast = Response("start", "already active")
    /\ wWatcher = Watcher(2)
    /\ wObservers = {2}

\* C30: the calculated hp, attack, defense and work speed build_pals gives a
\* pal are those of calculate_pal_stats on the pal's level, talents, rank,
\* trust level, friendship multipliers, alpha flag and its own passive skills
C30_BuilderAppliesCalculator ==
    sOp = "build" =>
        /\ sOut = CalculatePalStats(sIn)
        /\ (sIn.scaling.present /\ PassiveSum(sIn.passives, {"WorkSpeed", "CraftSpeed"}) # 0)
              => sOut.work_speed # BaseWorkSpeed

====
